---- MODULE Spec2Model ----
(***************************************************************************)
(* State-machine model of the reactive glue of typhonjs-fvtt/svelte:       *)
(*   - ApplicationStateImpl (src/unnamed/part_002): the save / restore     *)
(*     snapshot map of a SvelteApplication, with its animated restore;     *)
(*   - TJSDocument (src/src/store/fvtt/TJSDocument.js): the store wrapper  *)
(*     around a Foundry document.                                          *)
(* JavaScript runs one callback at a time, so every public method is one   *)
(* atomic action; a promise reaction (a `.then` callback) is an action of  *)
(* its own that runs some time after the promise was resolved.             *)
(***************************************************************************)
EXTENDS Integers, Sequences, FiniteSets, TLC

VARIABLES
    \* the application as ApplicationStateImpl reads and writes it
    rendered,           \* application.rendered
    minimized,          \* application.reactive.minimized
    position,           \* application.position.get()
    beforeMinimized,    \* application.position.state.get({ name: '#beforeMinimized' })
    options,            \* application.reactive.toJSON()
    \* ApplicationStateImpl
    dataSaved,          \* #dataSaved: Map<string, ApplicationStateData>, name -> object reference
    currentRestoreKey,  \* #currentRestoreKey
    heap,               \* the ApplicationStateData objects, by reference
    animations,         \* the animations of the position whose promise has not been reacted to
    last,               \* the last call: its arguments, result and what it invoked on the application
    \* TJSDocument
    document,           \* #document[0]
    apps,               \* the documents whose apps object has an entry under #uuidv4
    collection,         \* the documents still in their collection
    subscriptions,      \* #subscriptions
    updateOptions,      \* #updateOptions
    unsubscribers,      \* per handler, the unsubscribe function subscribe() returned
    notice,             \* the last call on the store: its arguments and the handlers it invoked
    documentOptions,    \* #options: which of preDelete / delete hold a function
    deleting,           \* per document, where its #deleted call waits
    transfer,           \* the last getUUIDFromDataTransfer call: its arguments and result
    lookups,            \* the setFromUUID calls that wait for globalThis.fromUuid
    \* Transforms
    localData,          \* this._data: its keys in insertion order, each with its value
    count,              \* #count
    transformed,        \* the last call on the Transforms: its arguments and result
    \* SvelteApplication
    renderState,        \* this._state, one of Application.RENDER_STATES
    element,            \* this.element is there (and in the DOM)
    svelteComponents,   \* #svelteComponents: how many components are mounted
    slideUps,           \* the slide-up animations queued on the element, each with its promise
    promises,           \* the promises that close() returned for an animation
    windowed,           \* ui.windows has the application under its appId
    windowMinimized,    \* this._minimized
    closed,             \* the last close() call or animation callback and what it did
    \* SvelteReactive
    appOptions,         \* this.#application.options, by accessor
    initialized,        \* #initialized
    appOptionsSubscribers, \* the handlers subscribed to storeAppOptions
    reacted,            \* the last call on the reactive state and what it did
    headerButtons,      \* #dataUIState.headerButtons, what the UI state store holds
    storesSubscribed,   \* #storeUnsubscribe holds the local subscriptions
    appButtons,         \* what this.#application._getHeaderButtons() returns
    updated,            \* the last call that concerns the header buttons
    \* loadSvelteConfig
    mounted,            \* how many components loadSvelteConfig has instantiated
    loaded,             \* the last loadSvelteConfig call: its arguments and result
    \* the draggable action
    dragActive,         \* active
    nodeListening,      \* the node has the pointerdown listener
    globalListening,    \* globalThis has the pointermove and pointerup listeners
    dragStart,          \* position and initialPosition, as recorded on pointerdown
    positionLeft,       \* positionable.position.left
    moveTime,           \* moveTime
    now,                \* Date.now(), in steps of 1000 / 60 ms
    dragged,            \* the last call or event of the action and whether it set the position
    \* Transforms.getData
    computed            \* the last getData call: its arguments and the output it filled

appVars == <<rendered, minimized, position, beforeMinimized, options>>
stateVars == <<dataSaved, currentRestoreKey, heap, animations>>
docVars == <<document, apps, collection, subscriptions, updateOptions, unsubscribers, notice>>
delVars == <<documentOptions, deleting, lookups>>
appStateVars == <<appVars, stateVars, last>>
transformVars == <<localData, count, transformed>>
closeVars == <<renderState, element, svelteComponents, slideUps, promises, windowed, windowMinimized,
               closed>>
reactiveVars == <<appOptions, initialized, appOptionsSubscribers, reacted>>
buttonVars == <<headerButtons, storesSubscribed, appButtons, updated>>
loadVars == <<mounted, loaded>>
dragVars == <<dragActive, nodeListening, globalListening, dragStart, positionLeft, moveTime, now,
              dragged>>
\* What the methods of one object leave alone because it belongs to another.
outsideApp == <<docVars, delVars, transfer, transformVars, closeVars, reactiveVars, buttonVars,
                loadVars, dragVars, computed>>
outsideDoc == <<appStateVars, transfer, transformVars, closeVars, reactiveVars, buttonVars,
                loadVars, dragVars, computed>>
outsideTransfer == <<appStateVars, docVars, delVars, transformVars, closeVars, reactiveVars,
                     buttonVars, loadVars, dragVars, computed>>
outsideTransforms == <<appStateVars, docVars, delVars, transfer, closeVars, reactiveVars,
                       buttonVars, loadVars, dragVars, computed>>
outsideClose == <<appStateVars, docVars, delVars, transfer, transformVars, reactiveVars,
                  buttonVars, loadVars, dragVars, computed>>
outsideReactive == <<appStateVars, docVars, delVars, transfer, transformVars, closeVars,
                     buttonVars, loadVars, dragVars, computed>>
outsideButtons == <<appStateVars, docVars, delVars, transfer, transformVars, closeVars,
                    loadVars, dragVars, computed>>
outsideLoad == <<appStateVars, docVars, delVars, transfer, transformVars, closeVars,
                 reactiveVars, buttonVars, dragVars, computed>>
outsideDrag == <<appStateVars, docVars, delVars, transfer, transformVars, closeVars,
                 reactiveVars, buttonVars, loadVars, computed>>
outsideData == <<appStateVars, docVars, delVars, transfer, transformVars, closeVars,
                 reactiveVars, buttonVars, loadVars, dragVars>>
vars == <<rendered, minimized, position, beforeMinimized, options,
          dataSaved, currentRestoreKey, heap, animations, last,
          document, apps, collection, subscriptions, updateOptions, unsubscribers, notice,
          documentOptions, deleting, transfer, lookups, localData, count, transformed,
          renderState, element, svelteComponents, slideUps, promises, windowed, windowMinimized,
          closed, appOptions, initialized, appOptionsSubscribers, reacted,
          headerButtons, storesSubscribed, appButtons, updated,
          mounted, loaded,
          dragActive, nodeListening, globalListening, dragStart, positionLeft, moveTime, now,
          dragged, computed>>

(***************************************************************************)
(* Values                                                                  *)
(***************************************************************************)

\* Bounds of the model.
MaxObjects == 2         \* ApplicationStateData objects created by save()
MaxAnimations == 3      \* animation promises not yet reacted to

\* JavaScript `undefined` where a string is expected (a name, the restore key).
Undefined == "undefined"
\* `undefined` where an object reference is expected (Map.get of a missing key).
NoObject == 0
\* `undefined` where a plain data object is expected.
NoData == [undefined |-> TRUE]

\* The names a caller passes: strings, and values that are not strings.
Names == {"a", "b"}
NonStrings == {Undefined}
NameArgs == Names \cup NonStrings

\* A type check that lets every value pass.
IsStringUnchecked(name) == TRUE

\* typeof name === 'string'
IsString(name) == name \in Names

\* isObject(value) for a data value of the model.
isObject(value) == value # NoData

\* Position data: left / top of the window and its height (collapsed when minimized).
Coords == {0, 1}
Positions == [left : Coords, top : Coords, height : {"header", "full"}]

\* The application options, as toJSON() of the reactive state gives them.
OptionValues == {[title |-> "one"], [title |-> "two"]}
\* The extra data a caller adds to a saved state.
ExtraArgs == {{"note"}}

Range(f) == {f[x] : x \in DOMAIN f}

\* The application as one value, for the operators that compute on it.
App == [rendered |-> rendered, minimized |-> minimized, position |-> position,
        beforeMinimized |-> beforeMinimized, options |-> options]

(***************************************************************************)
(* The host application and its position store, as ApplicationStateImpl    *)
(* uses them                                                               *)
(***************************************************************************)

\* application.maximize({ animate: false, duration: 0 })
maximize(app) ==
    IF app.rendered /\ app.minimized
    THEN [app EXCEPT !.minimized = FALSE, !.position.height = "full"]
    ELSE app

\* application.minimize({ animate: false, duration }): keeps the position before
\* minimizing under '#beforeMinimized' and collapses the window to its header.
minimize(app) ==
    IF app.rendered /\ ~app.minimized
    THEN [app EXCEPT !.minimized = TRUE, !.beforeMinimized = app.position,
                     !.position.height = "header"]
    ELSE app

\* application.position.set(positionData)
positionSet(app, positionData) == [app EXCEPT !.position = positionData]

\* application.position.state.set({ name: '#beforeMinimized', ...data.beforeMinimized })
stateSetBeforeMinimized(app, data) == [app EXCEPT !.beforeMinimized = data]

\* application.reactive.mergeOptions(data.options)
mergeOptions(app, opts) == [app EXCEPT !.options = opts]

(***************************************************************************)
(* ApplicationStateImpl                                                    *)
(***************************************************************************)

\* #dataSaved.get(name)
mapGet(ds, name) == IF name \in DOMAIN ds THEN ds[name] ELSE NoObject

\* A delete that deletes nothing.
mapDeleteNothing(ds, name) == ds

\* #dataSaved.delete(name)
mapDelete(ds, name) == [n \in (DOMAIN ds) \ {name} |-> ds[n]]

\* A set that drops the other entries of the map.
mapSetAlone(ds, name, id) == [n \in {name} |-> id]

\* #dataSaved.set(name, data)
mapSet(ds, name, id) == [n \in (DOMAIN ds) \cup {name} |-> IF n = name THEN id ELSE ds[n]]

\* An object stays in the model while the map or a pending animation refers to it.
collect(hp, ds, anims) ==
    [i \in DOMAIN hp |->
        IF i \in Range(ds) \cup {anims[k].data : k \in DOMAIN anims} THEN hp[i] ELSE NoData]

\* The object a reference denotes (`undefined` for no reference).
deref(hp, id) == IF id \in DOMAIN hp THEN hp[id] ELSE NoData

\* The keys of an ApplicationStateData object made by current(extra).
keysOf(data) == {"position", "beforeMinimized", "options", "ui"} \cup data.extra

\* current(extra): Object.assign(extra, { position, beforeMinimized, options, ui })
current(app, extra) ==
    [position |-> app.position,
     beforeMinimized |-> app.beforeMinimized,
     options |-> app.options,
     ui |-> [minimized |-> app.minimized],
     extra |-> extra]

\* typeof data.ui?.minimized === 'boolean' ? data.ui.minimized : false
uiMinimized(data) == IF isObject(data.ui) THEN data.ui.minimized ELSE FALSE

\* application.position.animate.to(data.position, { duration, ease, strategy: 'cancelAll' }):
\* every animation still running is cancelled, the new one runs; `key` is the name of
\* the restore that waits for it (Undefined for set()). The reaction to a cancelled
\* promise reads nothing of its data, and set() chains no further reaction: a cancelled
\* animation keeps only its key, and one of set() is dropped.
cancelAll(anims) ==
    SelectSeq([k \in DOMAIN anims |->
                  IF anims[k].state = "running"
                  THEN [key |-> anims[k].key, data |-> NoObject, state |-> "cancelled"]
                  ELSE anims[k]],
              LAMBDA a : ~(a.state = "cancelled" /\ a.key = Undefined))

animateTo(anims, id, key) ==
    cancelAll(anims) \o <<[key |-> key, data |-> id, state |-> "running"]>>

\* What a call did not do.
Quiet == [started |-> FALSE, posSet |-> NoData, merged |-> FALSE, minmax |-> "none"]

\* A position that takes left of 'position' and leaves top as it was before minimizing.
positionDataLeftOnly(data) ==
    IF isObject(data.beforeMinimized)
    THEN [data.beforeMinimized EXCEPT !.left = data.position.left]
    ELSE data.position

\* The position an application that is not rendered is set to: 'beforeMinimized' when it
\* exists, with left / top of 'position', otherwise 'position'.
positionDataNotRendered(data) ==
    IF isObject(data.beforeMinimized)
    THEN [data.beforeMinimized EXCEPT !.left = data.position.left,
                                      !.top = data.position.top]
    ELSE data.position

Outcome(app, hp, anims, outcome, seen) ==
    [app |-> app, heap |-> hp, animations |-> anims, outcome |-> outcome,
     started |-> seen.started, posSet |-> seen.posSet, merged |-> seen.merged,
     minmax |-> seen.minmax]

\* #setImpl(data, { async, animateTo, duration, ease }), synchronous part.
\* outcome: "TypeError" (thrown), "undefined" or "promise" (returned).
setImpl(app, hp, anims, id, data, async, animate, key) ==
    IF ~isObject(data) THEN Outcome(app, hp, anims, "TypeError", Quiet)
    ELSE IF ~isObject(data.position) THEN Outcome(app, hp, anims, "undefined", Quiet)
    ELSE IF animate THEN
        IF ~app.rendered THEN Outcome(app, hp, anims, "undefined", Quiet)
        ELSE
            LET doMax == isObject(data.ui) /\ app.minimized /\ ~uiMinimized(data)
                app1 == IF doMax THEN maximize(app) ELSE app
            IN  Outcome(app1, hp, animateTo(anims, id, key),
                        IF async THEN "promise" ELSE "undefined",
                        [Quiet EXCEPT !.started = TRUE,
                                      !.minmax = IF doMax THEN "maximize" ELSE "none"])
    ELSE IF app.rendered THEN
        LET hasOptions == isObject(data.options)
            app1 == IF hasOptions THEN mergeOptions(app, data.options) ELSE app
            doMax == isObject(data.ui) /\ app1.minimized /\ ~uiMinimized(data)
            doMin == isObject(data.ui) /\ ~app1.minimized /\ uiMinimized(data)
            app2 == IF doMax THEN maximize(app1) ELSE IF doMin THEN minimize(app1) ELSE app1
            app3 == IF isObject(data.beforeMinimized)
                    THEN stateSetBeforeMinimized(app2, data.beforeMinimized) ELSE app2
        IN  Outcome(positionSet(app3, data.position), hp, anims, "undefined",
                    [started |-> FALSE, posSet |-> data.position, merged |-> hasOptions,
                     minmax |-> IF doMax THEN "maximize" ELSE IF doMin THEN "minimize" ELSE "none"])
    ELSE
        LET hasBefore == isObject(data.beforeMinimized)
            positionData == positionDataNotRendered(data)
            \* positionData is data.beforeMinimized itself: the saved object is written to
            hp1 == IF hasBefore /\ id \in DOMAIN hp
                   THEN [hp EXCEPT ![id].beforeMinimized = positionData] ELSE hp
        IN  Outcome(positionSet(app, positionData), hp1, anims, "undefined",
                    [Quiet EXCEPT !.posSet = positionData])

\* The reaction to the promise of animate.to(...).finished inside #setImpl.
setImplThen(app, data, cancelled) ==
    IF cancelled THEN app
    ELSE
        LET app1 == IF isObject(data.options) THEN mergeOptions(app, data.options) ELSE app
            doMin == isObject(data.ui) /\ ~app1.minimized /\ uiMinimized(data)
            app2 == IF doMin THEN minimize(app1) ELSE app1
        IN  IF isObject(data.beforeMinimized)
            THEN stateSetBeforeMinimized(app2, data.beforeMinimized) ELSE app2

\* The reaction restore() chains: reset the restore key when it is still this name.
restoreThen(key, name) == IF name = key THEN Undefined ELSE key

(***************************************************************************)
(* The calls                                                               *)
(***************************************************************************)

\* The record of a call: arguments, returned reference, whether it threw a TypeError,
\* and what it invoked on the application.
Call(op, name, remove, animate, ret, threw, seen) ==
    [op |-> op, name |-> name, remove |-> remove, animateTo |-> animate, ret |-> ret,
     threw |-> threw, started |-> seen.started, posSet |-> seen.posSet,
     merged |-> seen.merged, minmax |-> seen.minmax, data |-> NoData]

NoCall == Call("none", Undefined, FALSE, FALSE, NoObject, FALSE, Quiet)

SetApp(app) ==
    /\ rendered' = app.rendered
    /\ minimized' = app.minimized
    /\ position' = app.position
    /\ beforeMinimized' = app.beforeMinimized
    /\ options' = app.options

(***************************************************************************)
(* TJSDocument: values and private methods                                 *)
(***************************************************************************)

\* Bound of the model.
MaxSubscriptions == 3   \* length of #subscriptions

\* The Foundry documents, and a value that is no Document and not `undefined`.
Docs == {"d1", "d2"}
NotDocument == "plain object"
DocumentArgs == Docs \cup {Undefined, NotDocument}

\* document instanceof globalThis.foundry.abstract.Document
IsDocument(doc) == doc \in Docs

\* Update options. `{}` is what a defaulted `options = {}` parameter creates.
EmptyOptions == [action |-> Undefined, data |-> Undefined]
SubscribeOptions == [action |-> "subscribe", data |-> Undefined]
DeleteOptions == [action |-> "delete", data |-> Undefined]
RenderOptions == {[action |-> "update", data |-> "changes"]}
NullOptions == [null |-> TRUE]
\* The options a caller passes to set(): omitted, an object, or null.
SetOptionArgs == {EmptyOptions, NullOptions} \cup RenderOptions

\* The subscribers. A handler of OneShot calls the unsubscribe function that its
\* subscribe() returned when it is notified of a change (the first call, made inside
\* subscribe(), comes before that function exists).
Handlers == {"h1", "h2", "once"}
OneShot == {"once"}

\* An array push that adds nothing.
pushNothing(subs, handler) == subs

\* this.#subscriptions.push(handler)
push(subs, handler) == Append(subs, handler)

\* this.#subscriptions.findIndex((sub) => sub === handler), counted from 1; 0 when
\* there is none (-1 in the code).
findIndex(subs, handler) ==
    IF \E i \in DOMAIN subs : subs[i] = handler
    THEN CHOOSE i \in DOMAIN subs : subs[i] = handler /\ \A j \in 1..(i - 1) : subs[j] # handler
    ELSE 0

\* A splice that removes nothing.
spliceNothing(subs, index) == subs

\* this.#subscriptions.splice(index, 1)
splice(subs, index) ==
    [i \in 1..(Len(subs) - 1) |-> IF i < index THEN subs[i] ELSE subs[i + 1]]

\* The unsubscribe function subscribe(handler) returns.
unsubscribe(subs, handler) ==
    LET index == findIndex(subs, handler)
    IN  IF index >= 1 THEN splice(subs, index) ELSE subs

\* The loop of #updateSubscribers: `cntr` walks the array itself, which a handler
\* that unsubscribes shortens under it.
RECURSIVE notify(_, _, _, _)
notify(subs, unsubs, cntr, notified) ==
    IF cntr > Len(subs)
    THEN [subscriptions |-> subs, unsubscribers |-> unsubs, notified |-> notified]
    ELSE LET handler == subs[cntr]
         IN  IF handler \in OneShot
             THEN notify(unsubscribe(subs, handler), [unsubs EXCEPT ![handler] = "called"],
                         cntr + 1, Append(notified, handler))
             ELSE notify(subs, unsubs, cntr + 1, Append(notified, handler))

\* #updateSubscribers(force, options): what it leaves in #updateOptions, #subscriptions
\* and the unsubscribe functions, the handlers it invoked in order, and what it
\* passed to each of them.
updateSubscribers(doc, subs, unsubs, opts) ==
    LET r == notify(subs, unsubs, 1, << >>)
    IN  [updateOptions |-> opts, subscriptions |-> r.subscriptions,
         unsubscribers |-> r.unsubscribers, notified |-> r.notified,
         sentDoc |-> doc, sentOptions |-> opts]

\* The attributes of TJSDocumentOptions: a function, `undefined`, or something else.
NotFunction == "not a function"
CallbackArgs == {Undefined, "function", NotFunction}
DocumentOptionArgs == [delete : CallbackArgs, preDelete : CallbackArgs]

\* A call of the preDelete or delete callback: the document it received and how many
\* subscribers the running #deleted had notified before it.
Callback(name, doc, notifiedBefore) ==
    [name |-> name, doc |-> doc, notifiedBefore |-> notifiedBefore]

\* An array truncation that keeps the elements.
lengthKept(subs) == subs

\* this.#subscriptions.length = 0
lengthZero(subs) == << >>

\* The uuid arguments of setFromUUID: a non-empty string, the empty string, and
\* `undefined`; and what the lookup of a non-empty string comes to: a document,
\* nothing, or an exception.
UuidStrings == {"Item.i1"}
UuidArgs == UuidStrings \cup {"", Undefined}
LookupThrows == "throws"
LookupResults == Docs \cup {Undefined, LookupThrows}

\* Bound of the model.
MaxLookups == 1         \* setFromUUID calls waiting for their lookup

\* get()
get == document

\* get updateOptions()
getUpdateOptions == IF updateOptions = NoData THEN EmptyOptions ELSE updateOptions

\* A call on the store as the claims see it.
Notice(op, handler, doc, opts, threw, notified, sentDoc, sentOptions) ==
    [op |-> op, handler |-> handler, doc |-> doc, options |-> opts, threw |-> threw,
     notified |-> notified, sentDoc |-> sentDoc, sentOptions |-> sentOptions,
     callbacks |-> << >>, resolved |-> Undefined]

NoNotice == Notice("none", Undefined, Undefined, NoData, FALSE, << >>, Undefined, NoData)

\* #deleted from the notification of the subscribers to its next `await` or its end,
\* for the deleted document `doc` when #document[0] is `held`.
deletedNotify(doc, held, subs, unsubs, opts) ==
    LET r == updateSubscribers(held, subs, unsubs, DeleteOptions)
        waits == opts.delete = "function"
    IN  [subscriptions |-> r.subscriptions, unsubscribers |-> r.unsubscribers,
         updateOptions |-> IF waits THEN r.updateOptions ELSE NoData,
         stage |-> IF waits THEN "delete" ELSE "none",
         notice |-> [Notice("delete", Undefined, doc, NoData, FALSE,
                            r.notified, r.sentDoc, r.sentOptions)
                        EXCEPT !.callbacks = IF waits
                                             THEN <<Callback("delete", doc, Len(r.notified))>>
                                             ELSE << >>]]

(***************************************************************************)
(* TJSDocument.getUUIDFromDataTransfer                                     *)
(***************************************************************************)

\* A UUID is the sequence of its dot-separated parts; the empty sequence stands for
\* `undefined` (no UUID, or a data.uuid that is not a string).
NoUUID == << >>
UUIDs == {<<"Compendium", "pack", "Item", "i1">>, <<"Item", "i1">>,
          <<"Actor", "a1", "Item", "i1">>}

\* opts.types that is not an array.
NoTypes == {"not an array"}
TypeArgs == {NoTypes, {"Item"}, {"Macro"}}

\* The drop data objects: v10 data carries `uuid`; v9 data carries some of `actorId`,
\* `type`, `id`, `pack` and `data._id`.
DropData == [uuid : UUIDs \cup {NoUUID}, actorId : {Undefined, "a1"},
             type : {Undefined, "Item"}, id : {Undefined, "i1"},
             pack : {Undefined, "pack"}, dataId : {"i1"}]
DropOptions == [actor : BOOLEAN, compendium : BOOLEAN, world : BOOLEAN, types : TypeArgs]

\* data.uuid.startsWith('Compendium')
startsWith(uuid, part) == uuid # NoUUID /\ uuid[1] = part

\* getUUIDFromDataTransfer(data, { actor, compendium, world, types })
getUUIDFromDataTransfer(data, opts) ==
    IF opts.types # NoTypes /\ data.type \notin opts.types THEN NoUUID
    ELSE IF data.uuid # NoUUID
    THEN LET isCompendium == startsWith(data.uuid, "Compendium")
         IN  IF isCompendium /\ opts.compendium THEN data.uuid
             ELSE IF opts.world THEN data.uuid
             ELSE NoUUID
    ELSE IF opts.actor /\ opts.world /\ data.actorId # Undefined /\ data.type # Undefined
         THEN <<"Actor", data.actorId, data.type, data.dataId>>
         ELSE IF data.id # Undefined
              THEN IF opts.compendium /\ data.pack # Undefined
                   THEN <<"Compendium", data.pack, data.id>>
                   ELSE IF opts.world THEN <<data.type, data.id>> ELSE NoUUID
              ELSE NoUUID

NoTransfer == [op |-> "none"]

(***************************************************************************)
(* Transforms                                                              *)
(***************************************************************************)

\* Bound of the model.
MaxKeys == 2            \* keys held in this._data

\* constants.transformKeys, and the keys among them that getMat4 reads from this._data
\* whatever data it was given.
transformKeys == <<"rotateX", "rotateY", "rotateZ", "scale",
                   "translateX", "translateY", "translateZ">>
translateKeys == {"translateX", "translateY", "translateZ"}

\* Numbers, and `undefined` for a value that is no finite number. The setters are
\* given 1 or `undefined`; the data objects carry 2 or `undefined`.
Num(n) == [num |-> n]
Values == {Num(1), NoData}

\* Number.isFinite(value)
isFinite(value) == value \in {Num(n) : n \in -2..2}

\* The objects passed to reset() and getMat4(): up to two keys in their own order,
\* among them one that is no transform key.
DataEntries == [key : {"scale", "translateX", "left"}, value : {Num(2), NoData}]
DataObjects == {<< >>} \cup {<<e>> : e \in DataEntries}
               \cup {p \in DataEntries \X DataEntries : p[1].key # p[2].key}

\* key in data, data[key], data[key] = value, delete data[key]
has(data, key) == \E i \in DOMAIN data : data[i].key = key
valueOf(data, key) ==
    IF has(data, key) THEN data[CHOOSE i \in DOMAIN data : data[i].key = key].value ELSE NoData
\* An assignment that moves the key to the front.
assignFirst(data, key, value) ==
    <<[key |-> key, value |-> value]>> \o SelectSeq(data, LAMBDA e : e.key # key)
assign(data, key, value) ==
    IF has(data, key)
    THEN [i \in DOMAIN data |-> IF data[i].key = key THEN [key |-> key, value |-> value]
                                ELSE data[i]]
    ELSE Append(data, [key |-> key, value |-> value])
deleteKey(data, key) == SelectSeq(data, LAMBDA e : e.key # key)

\* A counter that counts every assignment.
countedAlways(n, data, key) == n + 1

\* if (this._data.key === void 0) { this.#count++; }
counted(n, data, key) == IF has(data, key) THEN n ELSE n + 1

\* The loop of reset(data) over the keys of data.
RECURSIVE resetLoop(_, _)
resetLoop(local, data) ==
    IF data = << >> THEN local
    ELSE LET e == Head(data)
         IN  resetLoop(IF e.key \in Range(transformKeys) /\ isFinite(e.value)
                       THEN assign(local, e.key, e.value)
                       ELSE deleteKey(local, e.key), Tail(data))

\* getMat4(data): the elementary transforms it multiplies into the matrix, in order,
\* each with the value it is built from. `separate` is `data !== this._data`.
getMat4(local, data, separate) ==
    LET source == IF separate THEN data ELSE local
        first == [i \in DOMAIN local |->
                    [key |-> local[i].key,
                     value |-> IF local[i].key \in translateKeys THEN local[i].value
                               ELSE valueOf(source, local[i].key)]]
        rest == SelectSeq(transformKeys,
                          LAMBDA key : isFinite(valueOf(data, key)) /\ ~has(local, key))
    IN  IF separate
        THEN first \o [i \in DOMAIN rest |-> [key |-> rest[i], value |-> valueOf(data, rest[i])]]
        ELSE first

(***************************************************************************)
(* Transforms.getData                                                      *)
(***************************************************************************)

\* The positions given to getData: left and top, width and height (a number, or
\* 'auto' which is no finite number) and the transform keys the position carries.
PositionArgs == [left : {1}, top : {0}, width : {Num(-1), Num(2), NoData},
                 height : {Num(1), NoData},
                 data : {d \in DataObjects : Len(d) <= 1}
                        \cup {<<[key |-> "translateX", value |-> Num(2)],
                                [key |-> "scale", value |-> Num(2)]>>}]
\* The validation data: each property a number or absent.
ValidationArgs == [width : {Num(1), NoData}, height : {Num(1)},
                   offsetTop : {Num(1), NoData}, marginTop : {Num(2), NoData},
                   offsetLeft : {Num(1), NoData}]

\* value ?? other, as a number
orElse(value, other) == IF value = NoData THEN other ELSE value.num

\* hasTransform(data)
hasTransform(data) == \E i \in DOMAIN transformKeys : isFinite(valueOf(data, transformKeys[i]))

\* vec3.transformMat4(point, point, matrix) for the matrix that getMat4 multiplied
\* from the given elementary transforms: the last one applies to the point first.
RECURSIVE transformMat4(_, _)
transformMat4(point, matrix) ==
    IF matrix = << >> THEN point
    ELSE LET p == transformMat4(point, Tail(matrix))
             value == Head(matrix).value.num
         IN  CASE Head(matrix).key = "scale" -> <<p[1] * value, p[2] * value>>
               [] Head(matrix).key = "translateX" -> <<p[1] + value, p[2]>>
               [] Head(matrix).key = "translateY" -> <<p[1], p[2] + value>>

\* Bounds taken from the first and the third corner.
boundsOfDiagonal(rect) ==
    [x |-> rect[1][1], y |-> rect[1][2],
     width |-> rect[3][1] - rect[1][1], height |-> rect[3][2] - rect[1][2]]

\* The loop over the four corners that finds maxX, maxY, minX and minY, and the
\* bounding rect made of them.
boundsOf(rect) ==
    LET xs == {rect[i][1] : i \in DOMAIN rect}
        ys == {rect[i][2] : i \in DOMAIN rect}
        max(S) == CHOOSE m \in S : \A n \in S : n <= m
        min(S) == CHOOSE m \in S : \A n \in S : m <= n
    IN  [x |-> min(xs), y |-> min(ys),
         width |-> max(xs) - min(xs), height |-> max(ys) - min(ys)]

\* getData(position, output, validationData) on a Transforms holding `local`: the
\* corners, the matrix (no elementary transform: the identity) and the bounding rect of
\* the output. The transform origin of the position is the default one.
getData(local, pos, validationData) ==
    LET top == pos.top + orElse(validationData.offsetTop,
                                     orElse(validationData.marginTop, 0))
        left == pos.left + orElse(validationData.offsetLeft, 0)
        width == IF isFinite(pos.width) THEN pos.width.num
                 ELSE orElse(validationData.width, 0)
        height == IF isFinite(pos.height) THEN pos.height.num
                  ELSE orElse(validationData.height, 0)
        matrix == IF hasTransform(pos.data) THEN getMat4(local, pos.data, TRUE)
                  ELSE << >>
        rect == <<<<0, 0>>, <<width, 0>>, <<width, height>>, <<0, height>>>>
        corners == [i \in 1..4 |-> <<left + transformMat4(rect[i], matrix)[1],
                                     top + transformMat4(rect[i], matrix)[2]>>]
    IN  [corners |-> corners, mat4 |-> matrix, boundingRect |-> boundsOf(corners)]

(***************************************************************************)
(* SvelteApplication.close                                                 *)
(***************************************************************************)

\* Bounds of the model.
MaxComponents == 2      \* components that options.svelte mounts
MaxPromises == 3        \* close() calls that started an animation

\* A guard that lets every close() proceed.
closesAlways(force, state) == TRUE

\* options.force || [states.RENDERED, states.ERROR].includes(this._state)
closes(force, state) == force \/ state \in {"RENDERED", "ERROR"}

\* What the callback of slideUp leaves of the components when it skips them.
destroyNone(components) == components

\* entry.component?.$destroy() for every entry; this.#svelteComponents = []
destroyAll(components) == 0

\* A close() call or the callback of slideUp: whether close() was forced, dispatched
\* the close hooks and started an animation, whether the promise of close() is
\* resolved by the end of the step, and what the step did to the DOM in order.
Closed(op, force, hooks, animated, resolved, effects) ==
    [op |-> op, force |-> force, hooks |-> hooks, animated |-> animated,
     resolved |-> resolved, effects |-> effects]

(***************************************************************************)
(* SvelteReactive: the reactive application options                        *)
(***************************************************************************)

\* A JavaScript value with its typeof: booleans, strings, a number, undefined, null
\* and the object that a safe set creates for a missing level.
Typed(type, v) == [type |-> type, v |-> v]

\* The values assigned to the accessors, and those passed to setOptions directly.
OptionArgs == {Typed("boolean", "true"), Typed("boolean", "false"), Typed("string", "Sheet"),
               Typed("string", "SHEET.Title"), Typed("undefined", ""), Typed("object", "null"),
               Typed("number", "1")}
SetArgs == {Typed("boolean", "false"), Typed("string", "SHEET.Title"), Typed("undefined", "")}

\* The options with a reactive accessor; draggable and minimizable stand for the
\* boolean options whose getter reads the options and whose setters are written
\* alike. "headerIcon.x" is an accessor one level below headerIcon.
BooleanOptions == {"draggable", "minimizable"}
Accessors == BooleanOptions \cup {"headerIcon", "title"}
\* The two boolean options that the header buttons depend on.
HeaderOptions == {"headerButtonNoClose", "headerButtonNoLabel"}
DefaultOptions == [a \in Accessors \cup HeaderOptions \cup {"headerIcon.x"} |->
                      CASE a \in BooleanOptions -> Typed("boolean", "true")
                        [] a \in HeaderOptions -> Typed("boolean", "false")
                        [] a = "title" -> Typed("string", "Sheet")
                        [] OTHER -> Typed("undefined", "")]

\* The handlers that subscribe to storeAppOptions.
StoreHandlers == {"s1", "s2"}

\* A setter that passes every value on.
acceptsAny(accessor, value) == TRUE

\* The type check of the setter of an accessor.
accepts(accessor, value) ==
    CASE accessor \in BooleanOptions \cup HeaderOptions -> value.type = "boolean"
      [] accessor = "headerIcon" -> value.type \in {"undefined", "string"}
      [] accessor = "title" -> \/ value.type = "string"
                               \/ value \in {Typed("undefined", ""), Typed("object", "null")}

\* The value the setter of an accessor passes to setOptions.
passed(accessor, value) ==
    IF accessor = "title" /\ value.type # "string" THEN Typed("string", "") ELSE value

\* safeSet(data, accessor, value): the level above the last one is created when it is
\* undefined, and the set fails when that level holds null or a value that is not an
\* object.
safeSet(data, accessor, value) ==
    IF accessor = "headerIcon.x"
    THEN IF data["headerIcon"].type = "undefined"
         THEN [data |-> [data EXCEPT !["headerIcon"] = Typed("object", "{}"),
                                     !["headerIcon.x"] = value],
               success |-> TRUE]
         ELSE IF data["headerIcon"] # Typed("object", "{}")
         THEN [data |-> data, success |-> FALSE]
         ELSE [data |-> [data EXCEPT !["headerIcon.x"] = value], success |-> TRUE]
    ELSE IF accessor = "headerIcon"
    THEN [data |-> [data EXCEPT !["headerIcon"] = value,
                                !["headerIcon.x"] = Typed("undefined", "")],
          success |-> TRUE]
    ELSE [data |-> [data EXCEPT ![accessor] = value], success |-> TRUE]

\* safeAccess(data, accessor, defaultValue)
safeAccess(data, accessor, defaultValue) ==
    IF data[accessor].type = "undefined" THEN defaultValue ELSE data[accessor]

\* The title of the host application: options.title, localized.
localize(value) ==
    IF value = Typed("string", "SHEET.Title") THEN Typed("string", "Character Sheet") ELSE value

\* The getter of an accessor.
getter(data, accessor) ==
    IF accessor = "title" THEN localize(data["title"]) ELSE data[accessor]

\* getOptions(accessor)
getOptions(data, accessor) == safeAccess(data, accessor, Typed("undefined", ""))

\* An update of the store that reaches the subscribers whatever the safe set returned.
notifiesAlways(success, subscribers) == subscribers

\* if (success) { this.#storeAppOptionsUpdate(() => this.#application.options); }
notifies(success, subscribers) == IF success THEN subscribers ELSE {}

\* Nothing done to the options.
NoReaction == [options |-> DefaultOptions, success |-> FALSE, threw |-> FALSE, notified |-> {}]

\* setOptions(accessor, value): before initialize() the update function of the store
\* is undefined, and calling it throws after the options were written.
setOptions(data, accessor, value, init, subscribers) ==
    LET r == safeSet(data, accessor, value)
    IN  [options |-> r.data,
         success |-> r.success,
         threw |-> r.success /\ ~init,
         notified |-> IF init THEN notifies(r.success, subscribers) ELSE {}]

\* A call on the reactive state: its arguments, what safeSet returned, whether the
\* call threw, the handlers of storeAppOptions it invoked and the options they got.
Reacted(op, accessor, value, r) ==
    [op |-> op, accessor |-> accessor, value |-> value, success |-> r.success,
     threw |-> r.threw, notified |-> r.notified,
     sent |-> IF r.notified = {} THEN << >> ELSE <<r.options>>]

(***************************************************************************)
(* SvelteReactive: the header buttons of the UI state                      *)
(***************************************************************************)

\* A header button: its class and its label.
CloseButton == [class |-> "close", label |-> "Close"]
ConfigureButton == [class |-> "configure", label |-> "Configure"]
\* What _getHeaderButtons() of the application can return.
ButtonLists == {<<CloseButton>>, <<ConfigureButton, CloseButton>>}

\* The values passed to updateHeaderButtons for a flag: none, or a boolean.
FlagArgs == {Typed("undefined", ""), Typed("boolean", "true"), Typed("boolean", "false")}

\* A filter that keeps every button.
IsAnyButton(button) == TRUE

\* buttons.filter((button) => button.class !== 'close')
IsNotClose(button) == button.class # "close"

\* updateHeaderButtons({ headerButtonNoClose, headerButtonNoLabel }): a flag that is
\* not passed is read from the options.
updateHeaderButtons(data, buttons, noClose, noLabel) ==
    LET close == IF noClose.type = "undefined" THEN data["headerButtonNoClose"] ELSE noClose
        label == IF noLabel.type = "undefined" THEN data["headerButtonNoLabel"] ELSE noLabel
        kept == IF close = Typed("boolean", "true") THEN SelectSeq(buttons, IsNotClose)
                ELSE buttons
    IN  IF label = Typed("boolean", "true")
        THEN [i \in DOMAIN kept |-> [kept[i] EXCEPT !.label = Undefined]]
        ELSE kept

\* A call that concerns the header buttons: the flags passed and whether it threw.
Updated(op, noClose, noLabel, threw) ==
    [op |-> op, noClose |-> noClose, noLabel |-> noLabel, threw |-> threw]

(***************************************************************************)
(* loadSvelteConfig                                                        *)
(***************************************************************************)

MaxMounted == 2         \* components instantiated by loadSvelteConfig

\* CrossWindow.isHTMLElement(value): "div" and "section" are elements, "text" is a node
\* that is not one.
isHTMLElement(value) == value \in {"div", "section"}

\* The calls: whether app is passed and carries an eventbus, config.target (an
\* element, a selector or nothing), whether the selector matches in the document of
\* the active window, and the component that config.class creates: whether
\* elementRoot is a get / set accessor of it, and the value of elementRoot.
LoadArgs == [app : BOOLEAN, eventbus : BOOLEAN, target : {"div", "#app", Undefined},
             found : BOOLEAN, accessors : BOOLEAN,
             elementRoot : {"section", "text", Undefined}]

\* A check that takes every component for an application shell.
isShellAlways(component) == TRUE

\* isApplicationShell(component): every name of applicationShellContract is a
\* get / set accessor of the component.
isApplicationShell(component) == component.accessors

\* loadSvelteConfig({ app, config, elementRootUpdate }): whether it threw, whether the
\* component was instantiated before, and what it returned.
loadSvelteConfig(args) ==
    LET target == IF isHTMLElement(args.target) THEN args.target
                  ELSE IF args.target = "#app" /\ args.app /\ args.found THEN "div"
                  ELSE Undefined
        root == IF isApplicationShell(args) THEN args.elementRoot ELSE Undefined
    IN  IF ~isHTMLElement(target) \/ ~args.app
        THEN [threw |-> TRUE, created |-> FALSE, target |-> target, element |-> Undefined,
              eventbus |-> FALSE]
        ELSE IF ~isHTMLElement(root)
        THEN [threw |-> TRUE, created |-> TRUE, target |-> target, element |-> Undefined,
              eventbus |-> FALSE]
        ELSE [threw |-> FALSE, created |-> TRUE, target |-> target, element |-> root,
              eventbus |-> args.eventbus]

(***************************************************************************)
(* The draggable action                                                    *)
(***************************************************************************)

MaxTime == 3            \* Date.now(), in steps of 1000 / 60 ms
MaxLeft == 2            \* positionable.position.left
\* event.clientX of the pointer events.
ClientX == {0, 1}

\* A pointer move that sets the position whether the action is active or not.
movesAlways(isActive) == TRUE

\* if (!active) { return; }
moves(isActive) == isActive

\* A call or event of the action: the flag of update, the clientX of the event and
\* whether positionable.setPosition was called.
Dragged(op, flag, x, setPosition) ==
    [op |-> op, flag |-> flag, x |-> x, setPosition |-> setPosition]

\* A SvelteApplication that has not been rendered with nothing saved, and
\* `new TJSDocument()`: the constructor ends in set(undefined).
\* draggable(node, { positionable, booleanStore }) was given a store, which is truthy:
\* the listeners are activated.
Init ==
    /\ rendered = FALSE
    /\ minimized = FALSE
    /\ position = [left |-> 0, top |-> 0, height |-> "full"]
    /\ beforeMinimized = NoData
    /\ options = [title |-> "one"]
    /\ dataSaved = << >>
    /\ currentRestoreKey = Undefined
    /\ heap = << >>
    /\ animations = << >>
    /\ last = NoCall
    /\ document = Undefined
    /\ apps = {}
    /\ collection = Docs
    /\ subscriptions = << >>
    /\ updateOptions = EmptyOptions
    /\ unsubscribers = [h \in Handlers |-> "none"]
    /\ notice = NoNotice
    /\ documentOptions = [delete |-> Undefined, preDelete |-> Undefined]
    /\ deleting = [doc \in Docs |-> "none"]
    /\ transfer = NoTransfer
    /\ lookups = << >>
    /\ localData = << >>
    /\ count = 0
    /\ transformed = [op |-> "none"]
    /\ renderState = "NONE"
    /\ element = FALSE
    /\ svelteComponents = 0
    /\ slideUps = << >>
    /\ promises = << >>
    /\ windowed = FALSE
    /\ windowMinimized = FALSE
    /\ closed = Closed("none", FALSE, FALSE, FALSE, FALSE, << >>)
    /\ appOptions = DefaultOptions
    /\ initialized = FALSE
    /\ appOptionsSubscribers = {}
    /\ reacted = Reacted("none", "", Typed("undefined", ""), NoReaction)
    /\ headerButtons = << >>
    /\ storesSubscribed = FALSE
    /\ appButtons = <<CloseButton>>
    /\ updated = Updated("none", Typed("undefined", ""), Typed("undefined", ""), FALSE)
    /\ mounted = 0
    /\ loaded = [op |-> "none"]
    /\ dragActive = TRUE
    /\ nodeListening = TRUE
    /\ globalListening = FALSE
    /\ dragStart = NoData
    /\ positionLeft = 0
    /\ moveTime = 0
    /\ now = 1
    /\ dragged = Dragged("draggable", TRUE, 0, FALSE)
    /\ computed = [op |-> "none"]

\* clear()
Clear ==
    /\ dataSaved' = << >>
    /\ heap' = collect(heap, << >>, animations)
    /\ last' = Call("clear", Undefined, FALSE, FALSE, NoObject, FALSE, Quiet)
    /\ UNCHANGED <<outsideApp, appVars, currentRestoreKey, animations>>

\* current(extra)
Current(extra) ==
    /\ last' = Call("current", Undefined, FALSE, FALSE, NoObject, FALSE, Quiet)
    /\ UNCHANGED <<outsideApp, appVars, stateVars>>

\* get({ name })
Get(name) ==
    /\ last' = IF ~IsString(name)
               THEN Call("get", name, FALSE, FALSE, NoObject, TRUE, Quiet)
               ELSE Call("get", name, FALSE, FALSE, mapGet(dataSaved, name), FALSE, Quiet)
    /\ UNCHANGED <<outsideApp, appVars, stateVars>>

\* remove({ name })
Remove(name) ==
    IF ~IsString(name)
    THEN /\ last' = Call("remove", name, FALSE, FALSE, NoObject, TRUE, Quiet)
         /\ UNCHANGED <<outsideApp, appVars, stateVars>>
    ELSE /\ dataSaved' = mapDelete(dataSaved, name)
         /\ heap' = collect(heap, dataSaved', animations)
         /\ last' = Call("remove", name, FALSE, FALSE, mapGet(dataSaved, name), FALSE, Quiet)
         /\ UNCHANGED <<outsideApp, appVars, currentRestoreKey, animations>>

\* save({ name, ...extra })
Save(name, extra) ==
    IF ~IsString(name)
    THEN /\ last' = Call("save", name, FALSE, FALSE, NoObject, TRUE, Quiet)
         /\ UNCHANGED <<outsideApp, appVars, stateVars>>
    ELSE /\ Len(heap) < MaxObjects
         /\ dataSaved' = mapSet(dataSaved, name, Len(heap) + 1)
         /\ heap' = collect(Append(heap, current(App, extra)), dataSaved', animations)
         /\ last' = Call("save", name, FALSE, FALSE, Len(heap) + 1, FALSE, Quiet)
         /\ UNCHANGED <<outsideApp, appVars, currentRestoreKey, animations>>

\* restore({ name, remove, animateTo, duration, ease })
Restore(name, remove, animate) ==
    IF ~IsString(name)
    THEN /\ last' = Call("restore", name, remove, animate, NoObject, TRUE, Quiet)
         /\ UNCHANGED <<outsideApp, appVars, stateVars>>
    ELSE
        LET id == mapGet(dataSaved, name)
            ds == IF id # NoObject /\ remove THEN mapDelete(dataSaved, name) ELSE dataSaved
        IN  IF id # NoObject /\ animate /\ name # currentRestoreKey
            THEN LET r == setImpl(App, heap, animations, id, deref(heap, id), TRUE, animate, name)
                 IN  /\ Len(r.animations) <= MaxAnimations
                     /\ dataSaved' = ds
                     /\ currentRestoreKey' = name
                     /\ SetApp(r.app)
                     /\ animations' = r.animations
                     /\ heap' = collect(r.heap, ds, r.animations)
                     \* `.then` of the value #setImpl returned: a TypeError when it is
                     \* not a promise
                     /\ last' = IF r.outcome = "promise"
                                THEN Call("restore", name, remove, animate, id, FALSE, r)
                                ELSE Call("restore", name, remove, animate, NoObject, TRUE, r)
                     /\ UNCHANGED outsideApp
            ELSE /\ dataSaved' = ds
                 /\ heap' = collect(heap, ds, animations)
                 /\ last' = Call("restore", name, remove, animate, id, FALSE, Quiet)
                 /\ UNCHANGED <<outsideApp, appVars, currentRestoreKey, animations>>

\* The data a caller passes to set(): an object get() or save() returned, `undefined`,
\* or an object with no position.
NoPosition == [position |-> NoData, beforeMinimized |-> NoData, options |-> NoData,
               ui |-> NoData, extra |-> {}]
DataArgs == {i \in DOMAIN heap : isObject(heap[i])} \cup {NoObject, -1}
\* -1 stands for the object with no position, which no reference of the heap denotes.
dataOf(arg) == IF arg = -1 THEN NoPosition ELSE deref(heap, arg)

\* set(data, options)
Set(arg, animate) ==
    LET r == setImpl(App, heap, animations, arg, dataOf(arg), FALSE, animate, Undefined)
    IN  /\ Len(r.animations) <= MaxAnimations
        /\ SetApp(r.app)
        /\ animations' = r.animations
        /\ heap' = collect(r.heap, dataSaved, r.animations)
        /\ last' = [Call("set", Undefined, FALSE, animate, arg, r.outcome = "TypeError", r)
                        EXCEPT !.data = dataOf(arg)]
        /\ UNCHANGED <<outsideApp, dataSaved, currentRestoreKey>>

\* The reactions to the oldest cancelled promise run: #setImpl's returns at once, then
\* restore()'s. They are microtasks: they run after the call that cancelled the
\* animation has returned, and as many further calls of the same task as follow it.
AnimationCancelled ==
    /\ Len(animations) > 0
    /\ animations[1].state = "cancelled"
    /\ SetApp(setImplThen(App, deref(heap, animations[1].data), TRUE))
    /\ currentRestoreKey' = restoreThen(currentRestoreKey, animations[1].key)
    /\ animations' = Tail(animations)
    /\ last' = NoCall
    /\ UNCHANGED <<outsideApp, dataSaved, heap>>

\* The running animation reaches its end in a later animation frame, when no reaction
\* is pending any more: the position is the animated-to position, the promise is
\* resolved with { cancelled: false } and its reactions run.
AnimationFinished ==
    /\ Len(animations) = 1
    /\ animations[1].state = "running"
    /\ SetApp(setImplThen([App EXCEPT !.position = heap[animations[1].data].position],
                          heap[animations[1].data], FALSE))
    /\ currentRestoreKey' = IF animations[1].key = Undefined THEN currentRestoreKey
                            ELSE restoreThen(currentRestoreKey, animations[1].key)
    /\ animations' = << >>
    /\ heap' = collect(heap, dataSaved, << >>)
    /\ last' = NoCall
    /\ UNCHANGED <<outsideApp, dataSaved>>

\* The host renders, closes, minimizes and maximizes the application; the user drags it.
Render ==
    /\ ~rendered
    /\ rendered' = TRUE
    /\ last' = NoCall
    /\ UNCHANGED <<outsideApp, minimized, position, beforeMinimized, options, stateVars>>

Close ==
    /\ rendered
    /\ rendered' = FALSE
    /\ minimized' = FALSE
    /\ last' = NoCall
    /\ UNCHANGED <<outsideApp, position, beforeMinimized, options, stateVars>>

Minimize ==
    /\ rendered /\ ~minimized
    /\ SetApp(minimize(App))
    /\ last' = NoCall
    /\ UNCHANGED <<outsideApp, stateVars>>

Maximize ==
    /\ rendered /\ minimized
    /\ SetApp(maximize(App))
    /\ last' = NoCall
    /\ UNCHANGED <<outsideApp, stateVars>>

Move(left, top) ==
    /\ rendered
    /\ position' = [position EXCEPT !.left = left, !.top = top]
    /\ last' = NoCall
    /\ UNCHANGED <<outsideApp, rendered, minimized, beforeMinimized, options, stateVars>>

SetOption(value) ==
    /\ options' = value
    /\ last' = NoCall
    /\ UNCHANGED <<outsideApp, rendered, minimized, position, beforeMinimized, stateVars>>

NextAppState ==
    \/ Clear
    \/ \E extra \in ExtraArgs : Current(extra)
    \/ \E name \in NameArgs : Get(name)
    \/ \E name \in NameArgs : Remove(name)
    \/ \E name \in NameArgs, extra \in ExtraArgs : Save(name, extra)
    \/ \E name \in NameArgs, remove \in BOOLEAN, animate \in BOOLEAN : Restore(name, remove, animate)
    \/ \E arg \in DataArgs, animate \in BOOLEAN : Set(arg, animate)
    \/ AnimationCancelled
    \/ AnimationFinished
    \/ Render
    \/ Close

SpecAppState == Init /\ [][NextAppState]_vars

\* set() without animation on an application that is rendered, closed, minimized,
\* maximized, dragged and reconfigured, with the states saved from it under one name.
NextSet ==
    \/ \E extra \in ExtraArgs : Save("a", extra)
    \/ \E arg \in DataArgs : Set(arg, FALSE)
    \/ Render
    \/ Close
    \/ Minimize
    \/ Maximize
    \/ \E left \in Coords, top \in Coords : Move(left, top)
    \/ \E value \in OptionValues : SetOption(value)

SpecSet == Init /\ [][NextSet]_vars

(***************************************************************************)
(* TJSDocument: public methods and the callbacks Foundry invokes           *)
(***************************************************************************)

\* subscribe(handler)
Subscribe(handler) ==
    /\ Len(subscriptions) < MaxSubscriptions
    /\ subscriptions' = push(subscriptions, handler)
    /\ unsubscribers' = [unsubscribers EXCEPT ![handler] = "issued"]
    /\ notice' = Notice("subscribe", handler, Undefined, NoData, FALSE,
                        <<handler>>, document, SubscribeOptions)
    /\ UNCHANGED <<document, apps, collection, updateOptions, delVars, outsideDoc>>

\* A caller invokes an unsubscribe function that subscribe(handler) returned.
Unsubscribe(handler) ==
    /\ unsubscribers[handler] # "none"
    /\ subscriptions' = unsubscribe(subscriptions, handler)
    /\ unsubscribers' = [unsubscribers EXCEPT ![handler] = "called"]
    /\ notice' = Notice("unsubscribe", handler, Undefined, NoData, FALSE,
                        << >>, Undefined, NoData)
    /\ UNCHANGED <<document, apps, collection, updateOptions, delVars, outsideDoc>>

\* set(document, options): what it leaves in the store, whether it threw, and the
\* handlers it invoked.
set(doc, opts) ==
    LET unregistered == IF document # Undefined THEN apps \ {document} ELSE apps
    IN  IF (doc # Undefined /\ ~IsDocument(doc)) \/ opts = NullOptions
        THEN [threw |-> TRUE, apps |-> unregistered, document |-> document,
              updateOptions |-> updateOptions, subscriptions |-> subscriptions,
              unsubscribers |-> unsubscribers, notified |-> << >>,
              sentDoc |-> Undefined, sentOptions |-> NoData]
        ELSE LET r == updateSubscribers(doc, subscriptions, unsubscribers, EmptyOptions)
             IN  [threw |-> FALSE,
                  apps |-> IF IsDocument(doc) THEN unregistered \cup {doc} ELSE unregistered,
                  document |-> doc, updateOptions |-> r.updateOptions,
                  subscriptions |-> r.subscriptions, unsubscribers |-> r.unsubscribers,
                  notified |-> r.notified, sentDoc |-> r.sentDoc,
                  sentOptions |-> r.sentOptions]

\* set(document, options)
SetDocument(doc, opts) ==
    LET r == set(doc, opts)
    IN  /\ apps' = r.apps
        /\ document' = r.document
        /\ updateOptions' = r.updateOptions
        /\ subscriptions' = r.subscriptions
        /\ unsubscribers' = r.unsubscribers
        /\ notice' = Notice("set", Undefined, doc, opts, r.threw,
                            r.notified, r.sentDoc, r.sentOptions)
        /\ UNCHANGED <<collection, delVars, outsideDoc>>

\* setFromUUID(uuid, options) up to its `await`: it resolves to false at once for a
\* uuid that is no non-empty string, else it waits for globalThis.fromUuid(uuid).
SetFromUUID(uuid, opts) ==
    /\ IF uuid \notin UuidStrings
       THEN /\ notice' = [Notice("setFromUUID", Undefined, Undefined, opts, FALSE,
                                 << >>, Undefined, NoData) EXCEPT !.resolved = "false"]
            /\ UNCHANGED lookups
       ELSE /\ Len(lookups) < MaxLookups
            /\ lookups' = Append(lookups, [uuid |-> uuid, options |-> opts])
            /\ notice' = Notice("fromUuid", Undefined, Undefined, opts, FALSE,
                                << >>, Undefined, NoData)
    /\ UNCHANGED <<document, apps, collection, subscriptions, updateOptions, unsubscribers,
                   documentOptions, deleting, outsideDoc>>

\* globalThis.fromUuid settles with a document, with nothing, or by throwing, and
\* setFromUUID goes on to its end; the `catch` swallows what set() throws.
LookupSettled(i, result) ==
    /\ i \in DOMAIN lookups
    /\ lookups' = [j \in 1..(Len(lookups) - 1) |-> IF j < i THEN lookups[j] ELSE lookups[j + 1]]
    /\ IF IsDocument(result)
       THEN LET r == set(result, lookups[i].options)
            IN  /\ apps' = r.apps
                /\ document' = r.document
                /\ updateOptions' = r.updateOptions
                /\ subscriptions' = r.subscriptions
                /\ unsubscribers' = r.unsubscribers
                /\ notice' = [Notice("setFromUUID", Undefined, result, lookups[i].options,
                                     FALSE, r.notified, r.sentDoc, r.sentOptions)
                                 EXCEPT !.resolved = IF r.threw THEN "false" ELSE "true"]
       ELSE /\ notice' = [Notice("setFromUUID", Undefined, result, lookups[i].options,
                                 FALSE, << >>, Undefined, NoData)
                             EXCEPT !.resolved = "false"]
            /\ UNCHANGED <<document, apps, subscriptions, updateOptions, unsubscribers>>
    /\ UNCHANGED <<collection, documentOptions, deleting, outsideDoc>>

\* Foundry renders the applications of a document that changed: it calls the `render`
\* entry of doc.apps[#uuidv4], which is #updateSubscribers.
DocumentUpdate(doc, opts) ==
    /\ doc \in apps
    /\ LET r == updateSubscribers(document, subscriptions, unsubscribers, opts)
       IN  /\ updateOptions' = r.updateOptions
           /\ subscriptions' = r.subscriptions
           /\ unsubscribers' = r.unsubscribers
           /\ notice' = Notice("update", Undefined, doc, opts, FALSE,
                               r.notified, r.sentDoc, r.sentOptions)
    /\ UNCHANGED <<document, apps, collection, delVars, outsideDoc>>

\* setOptions(options)
SetOptions(opts) ==
    /\ IF opts.delete = NotFunction \/ opts.preDelete = NotFunction
       THEN /\ notice' = Notice("setOptions", Undefined, Undefined, NoData, TRUE,
                                << >>, Undefined, NoData)
            /\ UNCHANGED documentOptions
       ELSE /\ documentOptions' = opts
            /\ notice' = Notice("setOptions", Undefined, Undefined, NoData, FALSE,
                                << >>, Undefined, NoData)
    /\ UNCHANGED <<document, apps, collection, subscriptions, updateOptions, unsubscribers,
                   deleting, lookups, outsideDoc>>

\* Foundry deletes a document and closes its applications: it calls the `close` entry
\* of doc.apps[#uuidv4], which is #deleted. #deleted runs up to its first `await`: to
\* the call of preDelete when there is one, else through the notification to the call
\* of delete when there is one, else to its end.
DocumentDeleted(doc) ==
    /\ doc \in apps
    /\ doc \in collection
    /\ collection' = collection \ {doc}
    /\ IF IsDocument(document) /\ document \notin collection'
       THEN IF documentOptions.preDelete = "function"
            THEN /\ apps' = apps \ {document}
                 /\ document' = Undefined
                 /\ deleting' = [deleting EXCEPT ![document] = "preDelete"]
                 /\ notice' = [Notice("preDelete", Undefined, document, NoData, FALSE,
                                      << >>, Undefined, NoData)
                                  EXCEPT !.callbacks = <<Callback("preDelete", document, 0)>>]
                 /\ UNCHANGED <<subscriptions, updateOptions, unsubscribers>>
            ELSE LET r == deletedNotify(document, Undefined, subscriptions, unsubscribers,
                                        documentOptions)
                 IN  /\ apps' = apps \ {document}
                     /\ document' = Undefined
                     /\ updateOptions' = r.updateOptions
                     /\ subscriptions' = r.subscriptions
                     /\ unsubscribers' = r.unsubscribers
                     /\ deleting' = [deleting EXCEPT ![document] = r.stage]
                     /\ notice' = r.notice
       ELSE /\ notice' = Notice("delete", Undefined, doc, NoData, FALSE, << >>, Undefined, NoData)
            /\ UNCHANGED <<document, apps, subscriptions, updateOptions, unsubscribers,
                           deleting>>
    /\ UNCHANGED <<documentOptions, lookups, outsideDoc>>

\* The promise of preDelete(doc) is settled and #deleted goes on: it notifies the
\* subscribers and calls delete when there is one.
PreDeleteSettled(doc) ==
    /\ deleting[doc] = "preDelete"
    /\ LET r == deletedNotify(doc, document, subscriptions, unsubscribers, documentOptions)
       IN  /\ updateOptions' = r.updateOptions
           /\ subscriptions' = r.subscriptions
           /\ unsubscribers' = r.unsubscribers
           /\ deleting' = [deleting EXCEPT ![doc] = r.stage]
           /\ notice' = r.notice
    /\ UNCHANGED <<document, apps, collection, documentOptions, lookups, outsideDoc>>

\* The promise of delete(doc) is settled and #deleted ends.
DeleteSettled(doc) ==
    /\ deleting[doc] = "delete"
    /\ updateOptions' = NoData
    /\ deleting' = [deleting EXCEPT ![doc] = "none"]
    /\ notice' = Notice("deleted", Undefined, doc, NoData, FALSE, << >>, Undefined, NoData)
    /\ UNCHANGED <<document, apps, collection, subscriptions, unsubscribers,
                   documentOptions, lookups, outsideDoc>>

\* destroy()
Destroy ==
    /\ apps' = IF IsDocument(document) THEN apps \ {document} ELSE apps
    /\ document' = IF IsDocument(document) THEN Undefined ELSE document
    /\ documentOptions' = [documentOptions EXCEPT !.delete = Undefined]
    /\ subscriptions' = lengthZero(subscriptions)
    /\ notice' = Notice("destroy", Undefined, document, NoData, FALSE, << >>, Undefined, NoData)
    /\ UNCHANGED <<collection, updateOptions, unsubscribers, deleting, lookups, outsideDoc>>

NextDocument ==
    \/ \E handler \in Handlers : Subscribe(handler)
    \/ \E handler \in Handlers : Unsubscribe(handler)
    \/ \E doc \in DocumentArgs, opts \in SetOptionArgs : SetDocument(doc, opts)
    \/ \E doc \in Docs, opts \in RenderOptions \cup {EmptyOptions} : DocumentUpdate(doc, opts)
    \/ \E doc \in Docs : DocumentDeleted(doc)

SpecDocument == Init /\ [][NextDocument]_vars

\* The deletion of the wrapped document with preDelete / delete callbacks, while
\* handlers that stay subscribed are added, documents are set and updated and the
\* store is destroyed.
NextDeleted ==
    \/ \E opts \in DocumentOptionArgs : SetOptions(opts)
    \/ \E handler \in Handlers \ OneShot : Subscribe(handler)
    \/ \E doc \in Docs \cup {Undefined} : SetDocument(doc, EmptyOptions)
    \/ \E doc \in Docs : DocumentDeleted(doc)
    \/ \E doc \in Docs : PreDeleteSettled(doc)
    \/ \E doc \in Docs : DeleteSettled(doc)
    \/ \E doc \in Docs : DocumentUpdate(doc, EmptyOptions)
    \/ Destroy

SpecDeleted == Init /\ [][NextDeleted]_vars

\* setFromUUID on a store that has subscribers and whose document is also set directly.
NextLookup ==
    \/ \E uuid \in UuidArgs, opts \in SetOptionArgs : SetFromUUID(uuid, opts)
    \/ \E i \in 1..MaxLookups, result \in LookupResults : LookupSettled(i, result)
    \/ \E handler \in Handlers \ OneShot : Subscribe(handler)
    \/ \E doc \in Docs \cup {Undefined} : SetDocument(doc, EmptyOptions)

SpecLookup == Init /\ [][NextLookup]_vars

(***************************************************************************)
(* TJSDocument.getUUIDFromDataTransfer applied to every drop data object   *)
(***************************************************************************)

GetUUIDFromDataTransfer(data, opts) ==
    /\ transfer' = [op |-> "getUUIDFromDataTransfer", data |-> data, opts |-> opts,
                    ret |-> getUUIDFromDataTransfer(data, opts)]
    /\ UNCHANGED outsideTransfer

NextTransfer == \E data \in DropData, opts \in DropOptions : GetUUIDFromDataTransfer(data, opts)

SpecTransfer == Init /\ [][NextTransfer]_vars

(***************************************************************************)
(* Transforms: setters, reset and getMat4                                  *)
(***************************************************************************)

\* set rotateX(value), ..., set translateZ(value)
SetTransform(key, value) ==
    /\ IF isFinite(value)
       THEN /\ Len(assign(localData, key, value)) <= MaxKeys
            /\ count' = counted(count, localData, key)
            /\ localData' = assign(localData, key, value)
       ELSE /\ count' = IF has(localData, key) THEN count - 1 ELSE count
            /\ localData' = deleteKey(localData, key)
    /\ transformed' = [op |-> "set", key |-> key, value |-> value]
    /\ UNCHANGED outsideTransforms

\* reset(data)
Reset(data) ==
    /\ Len(resetLoop(localData, data)) <= MaxKeys
    /\ localData' = resetLoop(localData, data)
    /\ count' = Len(localData')
    /\ transformed' = [op |-> "reset", data |-> data]
    /\ UNCHANGED outsideTransforms

\* getMat4(data), and getMat4() that takes this._data
GetMat4(data, separate) ==
    /\ transformed' = [op |-> "getMat4", data |-> data, separate |-> separate,
                       ret |-> getMat4(localData, data, separate)]
    /\ UNCHANGED <<localData, count, outsideTransforms>>

NextTransforms ==
    \/ \E i \in DOMAIN transformKeys, value \in Values : SetTransform(transformKeys[i], value)
    \/ \E data \in DataObjects : Reset(data)
    \/ \E data \in DataObjects : GetMat4(data, TRUE)
    \/ GetMat4(localData, FALSE)

SpecTransforms == Init /\ [][NextTransforms]_vars

\* getData(position, output, validationData)
GetData(pos, validationData) ==
    /\ computed' = [op |-> "getData", position |-> pos, validationData |-> validationData,
                    output |-> getData(localData, pos, validationData)]
    /\ UNCHANGED outsideData

NextData ==
    \E pos \in PositionArgs, validationData \in ValidationArgs :
        GetData(pos, validationData)

SpecData == Init /\ [][NextData]_vars


(***************************************************************************)
(* SvelteApplication: rendering by the host, close() and the animation     *)
(***************************************************************************)

\* The host renders the application: _injectHTML mounts the components of
\* options.svelte, the element is inserted and the window registered.
RenderApplication(components) ==
    /\ renderState \in {"NONE", "CLOSED"}
    /\ renderState' = "RENDERED"
    /\ element' = TRUE
    /\ windowed' = TRUE
    /\ svelteComponents' = svelteComponents + components
    /\ closed' = Closed("render", FALSE, FALSE, FALSE, FALSE, << >>)
    /\ UNCHANGED <<slideUps, promises, windowMinimized, outsideClose>>

\* A later render of the host fails: the application is left in the ERROR state.
RenderError ==
    /\ renderState = "RENDERED"
    /\ renderState' = "ERROR"
    /\ closed' = Closed("error", FALSE, FALSE, FALSE, FALSE, << >>)
    /\ UNCHANGED <<element, svelteComponents, slideUps, promises, windowed, windowMinimized,
                   outsideClose>>

\* The user minimizes or maximizes the rendered window.
ToggleMinimized ==
    /\ renderState = "RENDERED"
    /\ windowMinimized' = ~windowMinimized
    /\ closed' = Closed("minimize", FALSE, FALSE, FALSE, FALSE, << >>)
    /\ UNCHANGED <<renderState, element, svelteComponents, slideUps, promises, windowed,
                   outsideClose>>

\* close(options)
CloseApplication(force) ==
    /\ IF ~closes(force, renderState)
       THEN /\ closed' = Closed("close", force, FALSE, FALSE, TRUE, << >>)
            /\ UNCHANGED <<renderState, slideUps, promises>>
       ELSE IF ~element
       THEN /\ renderState' = "CLOSED"
            /\ closed' = Closed("close", force, FALSE, FALSE, TRUE, << >>)
            /\ UNCHANGED <<slideUps, promises>>
       ELSE /\ Len(promises) < MaxPromises
            /\ renderState' = "CLOSING"
            /\ promises' = Append(promises, "pending")
            /\ slideUps' = Append(slideUps, Len(promises) + 1)
            /\ closed' = Closed("close", force, TRUE, TRUE, FALSE, << >>)
    /\ UNCHANGED <<element, svelteComponents, windowed, windowMinimized, outsideClose>>

\* The first slide-up animation queued on the element completes and its callback
\* runs. el.remove() drops what is still queued on the element.
SlideUpComplete ==
    /\ slideUps # << >>
    /\ promises' = [promises EXCEPT ![slideUps[1]] = "resolved"]
    /\ svelteComponents' = destroyAll(svelteComponents)
    /\ element' = FALSE
    /\ windowed' = FALSE
    /\ windowMinimized' = FALSE
    /\ renderState' = "CLOSED"
    /\ slideUps' = << >>
    /\ closed' = Closed("slideUp", FALSE, FALSE, FALSE, TRUE,
                        <<"slideUp", "destroy", "remove", "resolve">>)
    /\ UNCHANGED outsideClose

NextClose ==
    \/ \E components \in 1..MaxComponents : RenderApplication(components)
    \/ RenderError
    \/ ToggleMinimized
    \/ \E force \in BOOLEAN : CloseApplication(force)
    \/ SlideUpComplete

SpecClose == Init /\ [][NextClose]_vars

(***************************************************************************)
(* SvelteReactive: initialize(), the store of the options and the setters  *)
(***************************************************************************)

\* initialize()
Initialize ==
    /\ initialized' = TRUE
    /\ reacted' = Reacted("initialize", "", Typed("undefined", ""), NoReaction)
    /\ UNCHANGED <<appOptions, appOptionsSubscribers, outsideReactive>>

\* storeAppOptions.subscribe(handler): the handler is invoked with the options.
SubscribeAppOptions(handler) ==
    /\ initialized
    /\ handler \notin appOptionsSubscribers
    /\ appOptionsSubscribers' = appOptionsSubscribers \cup {handler}
    /\ reacted' = Reacted("subscribe", "", Typed("undefined", ""),
                          [options |-> appOptions, success |-> FALSE, threw |-> FALSE,
                           notified |-> {handler}])
    /\ UNCHANGED <<appOptions, initialized, outsideReactive>>

\* The function that storeAppOptions.subscribe returned is called.
UnsubscribeAppOptions(handler) ==
    /\ handler \in appOptionsSubscribers
    /\ appOptionsSubscribers' = appOptionsSubscribers \ {handler}
    /\ reacted' = Reacted("unsubscribe", "", Typed("undefined", ""), NoReaction)
    /\ UNCHANGED <<appOptions, initialized, outsideReactive>>

\* reactive[accessor] = value
SetAccessor(accessor, value) ==
    LET r == IF accepts(accessor, value)
             THEN setOptions(appOptions, accessor, passed(accessor, value), initialized,
                             appOptionsSubscribers)
             ELSE [NoReaction EXCEPT !.options = appOptions]
    IN  /\ appOptions' = r.options
        /\ reacted' = Reacted("setter", accessor, value, r)
        /\ UNCHANGED <<initialized, appOptionsSubscribers, outsideReactive>>

\* reactive.setOptions(accessor, value)
SetAppOptions(accessor, value) ==
    LET r == setOptions(appOptions, accessor, value, initialized, appOptionsSubscribers)
    IN  /\ appOptions' = r.options
        /\ reacted' = Reacted("setOptions", accessor, value, r)
        /\ UNCHANGED <<initialized, appOptionsSubscribers, outsideReactive>>

NextReactive ==
    \/ Initialize
    \/ \E handler \in StoreHandlers : SubscribeAppOptions(handler)
    \/ \E handler \in StoreHandlers : UnsubscribeAppOptions(handler)
    \/ \E accessor \in Accessors, value \in OptionArgs : SetAccessor(accessor, value)
    \/ \E accessor \in Accessors \cup {"headerIcon.x"}, value \in SetArgs :
        SetAppOptions(accessor, value)

SpecReactive == Init /\ [][NextReactive]_vars

(***************************************************************************)
(* SvelteReactive: the local store subscriptions and updateHeaderButtons   *)
(***************************************************************************)

\* #storesSubscribe(), which initialize() hands to the application
StoresSubscribe ==
    /\ initialized
    /\ storesSubscribed' = TRUE
    /\ updated' = Updated("subscribe", Typed("undefined", ""), Typed("undefined", ""), FALSE)
    /\ UNCHANGED <<headerButtons, appButtons, reactiveVars, outsideButtons>>

\* #storesUnsubscribe()
StoresUnsubscribe ==
    /\ initialized
    /\ storesSubscribed' = FALSE
    /\ updated' = Updated("unsubscribe", Typed("undefined", ""), Typed("undefined", ""), FALSE)
    /\ UNCHANGED <<headerButtons, appButtons, reactiveVars, outsideButtons>>

\* The application comes to return other header buttons.
SetAppButtons(buttons) ==
    /\ appButtons' = buttons
    /\ updated' = Updated("buttons", Typed("undefined", ""), Typed("undefined", ""), FALSE)
    /\ UNCHANGED <<headerButtons, storesSubscribed, reactiveVars, outsideButtons>>

\* updateHeaderButtons(opts): before initialize() the update function of the UI
\* state store is undefined and the call throws.
UpdateHeaderButtons(noClose, noLabel) ==
    /\ headerButtons' = IF initialized
                        THEN updateHeaderButtons(appOptions, appButtons, noClose, noLabel)
                        ELSE headerButtons
    /\ updated' = Updated("updateHeaderButtons", noClose, noLabel, ~initialized)
    /\ UNCHANGED <<storesSubscribed, appButtons, reactiveVars, outsideButtons>>

\* reactive[accessor] = value for one of the two header options, or
\* setOptions(accessor, value) when direct. With the local subscriptions active, the
\* property store of the accessor emits when the value changed, and its subscriber
\* calls updateHeaderButtons with the new value.
SetHeaderOption(accessor, value, direct) ==
    LET r == IF direct \/ accepts(accessor, value)
             THEN setOptions(appOptions, accessor, value, initialized, appOptionsSubscribers)
             ELSE [NoReaction EXCEPT !.options = appOptions]
        emits == initialized /\ storesSubscribed /\ r.options[accessor] # appOptions[accessor]
    IN  /\ appOptions' = r.options
        /\ reacted' = Reacted(IF direct THEN "setOptions" ELSE "setter", accessor, value, r)
        /\ headerButtons' =
            IF ~emits THEN headerButtons
            ELSE IF accessor = "headerButtonNoClose"
            THEN updateHeaderButtons(r.options, appButtons, value, Typed("undefined", ""))
            ELSE updateHeaderButtons(r.options, appButtons, Typed("undefined", ""), value)
        /\ updated' = Updated(IF emits THEN "changed" ELSE "unchanged",
                              Typed("undefined", ""), Typed("undefined", ""), r.threw)
        /\ UNCHANGED <<initialized, appOptionsSubscribers, storesSubscribed, appButtons,
                       outsideButtons>>

NextButtons ==
    \/ Initialize
    \/ StoresSubscribe
    \/ StoresUnsubscribe
    \/ \E buttons \in ButtonLists : SetAppButtons(buttons)
    \/ \E noClose \in FlagArgs, noLabel \in FlagArgs : UpdateHeaderButtons(noClose, noLabel)
    \/ \E accessor \in HeaderOptions, value \in OptionArgs, direct \in BOOLEAN :
        SetHeaderOption(accessor, value, direct)

SpecButtons == Init /\ [][NextButtons]_vars

(***************************************************************************)
(* loadSvelteConfig                                                        *)
(***************************************************************************)

\* loadSvelteConfig({ app, config, elementRootUpdate })
LoadSvelteConfig(args) ==
    LET r == loadSvelteConfig(args)
    IN  /\ r.created => mounted < MaxMounted
        /\ mounted' = IF r.created THEN mounted + 1 ELSE mounted
        /\ loaded' = [op |-> "loadSvelteConfig", args |-> args, result |-> r]
        /\ UNCHANGED outsideLoad

NextLoad == \E args \in LoadArgs : LoadSvelteConfig(args)

SpecLoad == Init /\ [][NextLoad]_vars

(***************************************************************************)
(* The draggable action: update, destroy and the pointer events            *)
(***************************************************************************)

\* update({ booleanStore }): activateListeners() or removeListeners(), which takes the
\* listeners off the node and leaves those of globalThis.
UpdateDraggable(flag) ==
    /\ dragActive' = flag
    /\ nodeListening' = flag
    /\ dragged' = Dragged("update", flag, 0, FALSE)
    /\ UNCHANGED <<globalListening, dragStart, positionLeft, moveTime, now, outsideDrag>>

\* destroy()
DestroyDraggable ==
    /\ dragActive' = FALSE
    /\ nodeListening' = FALSE
    /\ dragged' = Dragged("destroy", FALSE, 0, FALSE)
    /\ UNCHANGED <<globalListening, dragStart, positionLeft, moveTime, now, outsideDrag>>

\* A pointerdown on the node: onDragPointerDown when the node listens.
PointerDown(x) ==
    /\ dragged' = Dragged("pointerdown", FALSE, x, FALSE)
    /\ IF nodeListening
       THEN /\ dragStart' = [left |-> positionLeft, x |-> x]
            /\ globalListening' = TRUE
       ELSE UNCHANGED <<dragStart, globalListening>>
    /\ UNCHANGED <<dragActive, nodeListening, positionLeft, moveTime, now, outsideDrag>>

\* A pointermove in the window: onDragPointerMove when globalThis listens.
PointerMove(x) ==
    IF globalListening /\ moves(dragActive) /\ now - moveTime >= 1
    THEN LET left == dragStart.left + (x - dragStart.x)
         IN  /\ left \in 0..MaxLeft
             /\ moveTime' = now
             /\ positionLeft' = left
             /\ dragged' = Dragged("pointermove", FALSE, x, TRUE)
             /\ UNCHANGED <<dragActive, nodeListening, globalListening, dragStart, now,
                            outsideDrag>>
    ELSE /\ dragged' = Dragged("pointermove", FALSE, x, FALSE)
         /\ UNCHANGED <<dragActive, nodeListening, globalListening, dragStart, positionLeft,
                        moveTime, now, outsideDrag>>

\* A pointerup in the window: onDragPointerUp when globalThis listens.
PointerUp ==
    /\ globalListening' = FALSE
    /\ dragged' = Dragged("pointerup", FALSE, 0, FALSE)
    /\ UNCHANGED <<dragActive, nodeListening, dragStart, positionLeft, moveTime, now,
                   outsideDrag>>

\* Time passes.
Tick ==
    /\ now < MaxTime
    /\ now' = now + 1
    /\ dragged' = Dragged("tick", FALSE, 0, FALSE)
    /\ UNCHANGED <<dragActive, nodeListening, globalListening, dragStart, positionLeft,
                   moveTime, outsideDrag>>

NextDrag ==
    \/ \E flag \in BOOLEAN : UpdateDraggable(flag)
    \/ DestroyDraggable
    \/ \E x \in ClientX : PointerDown(x)
    \/ \E x \in ClientX : PointerMove(x)
    \/ PointerUp
    \/ Tick

SpecDrag == Init /\ [][NextDrag]_vars





(***************************************************************************)
(* Claims about ApplicationStateImpl                                       *)
(***************************************************************************)

\* The calls that, for `name`, end the life of the entry saved under it.
Replaces(call, name) ==
    \/ call.op = "clear"
    \/ call.op \in {"save", "remove"} /\ call.name = name
    \/ call.op = "restore" /\ call.name = name /\ call.remove

\* C1: save({ name, ...extra }) stores under name the very object it returns, which has
\* the keys position, beforeMinimized, options, ui and the extra keys; get({ name })
\* returns the object stored under name; and the object stored under a name stays the
\* same across every call but a save, remove or restore({ remove: true }) of that name
\* and clear: a save under another name does not change it.
C1_SaveGetRoundTrip ==
    [][ /\ (last'.op = "save" /\ last'.name \in Names) =>
              /\ ~last'.threw
              /\ last'.ret \notin Range(dataSaved) \cup {NoObject}
              /\ mapGet(dataSaved', last'.name) = last'.ret
              /\ \E extra \in ExtraArgs :
                    keysOf(heap'[last'.ret]) =
                        {"position", "beforeMinimized", "options", "ui"} \cup extra
        /\ (last'.op = "get" /\ last'.name \in Names) =>
              /\ ~last'.threw
              /\ last'.ret = mapGet(dataSaved, last'.name)
              /\ dataSaved' = dataSaved
        /\ \A name \in DOMAIN dataSaved :
              ~Replaces(last', name) =>
                  /\ name \in DOMAIN dataSaved'
                  /\ dataSaved'[name] = dataSaved[name] ]_vars

\* C1 witness: get of a name returns the first saved object after a later save under
\* the other name.
C1_Witness ==
    /\ last.op = "get" /\ last.name = "a" /\ last.ret = 1
    /\ "b" \in DOMAIN dataSaved /\ dataSaved["b"] = 2

\* C2: the keys of the map change only by save (adds the name), remove (deletes the
\* name), clear (deletes all) and restore with remove true (deletes the name); every
\* other call, and every reaction to an animation, leaves the keys as they are.
C2_KeysAreSavedNames ==
    [][ DOMAIN dataSaved' =
            IF last'.name \notin Names /\ last'.op # "clear" THEN DOMAIN dataSaved
            ELSE IF last'.op = "save" THEN DOMAIN dataSaved \cup {last'.name}
            ELSE IF last'.op = "remove" THEN DOMAIN dataSaved \ {last'.name}
            ELSE IF last'.op = "clear" THEN {}
            ELSE IF last'.op = "restore" /\ last'.remove THEN DOMAIN dataSaved \ {last'.name}
            ELSE DOMAIN dataSaved ]_vars

\* C2 witness: a restore with remove true has returned the entry of "a" and deleted it,
\* and "b" is still saved.
C2_Witness ==
    /\ last.op = "restore" /\ last.name = "a" /\ last.remove /\ last.ret # NoObject
    /\ DOMAIN dataSaved = {"b"}

\* An animated restore of `name` is in progress.
Restoring(name) ==
    \E k \in DOMAIN animations :
        animations[k].state = "running" /\ animations[k].key = name

\* C3: while an animated restore of a name is in progress, a further
\* restore({ name, animateTo: true }) of that name starts no animation.
C3_NoSecondAnimation ==
    [][ \A name \in Names :
            (Restoring(name) /\ last'.op = "restore" /\ last'.name = name /\ last'.animateTo)
                => ~last'.started ]_vars

\* C4: restore with a string name throws nothing and returns the entry saved under the
\* name, or undefined when there is none.
C4_RestoreReturnsSaved ==
    [][ (last'.op = "restore" /\ last'.name \in Names) =>
            /\ ~last'.threw
            /\ last'.ret = mapGet(dataSaved, last'.name) ]_vars

\* C5: get, remove, restore and save called with a name that is not a string throw a
\* TypeError and leave the saved states, the restore key and the application as they are.
C5_TypeErrorChangesNothing ==
    [][ (last'.op \in {"get", "remove", "restore", "save"} /\ last'.name \notin Names) =>
            /\ last'.threw
            /\ UNCHANGED <<dataSaved, currentRestoreKey, heap, animations>>
            /\ UNCHANGED <<rendered, minimized, position, beforeMinimized, options>> ]_vars

\* C5 witness: a save with a name that is not a string has thrown while a state is saved.
C5_Witness ==
    /\ last.op = "save" /\ last.name \notin Names /\ last.threw
    /\ DOMAIN dataSaved # {}

\* C6: set(data) without animateTo on an application that is not rendered, for data
\* whose position is an object, sets the position to the before-minimized data with
\* left / top of data.position when data.beforeMinimized is an object and to
\* data.position otherwise; it merges no options, invokes neither minimize nor
\* maximize, and leaves options, minimized state and '#beforeMinimized' as they are.
C6_SetNotRendered ==
    [][ ( /\ last'.op = "set" /\ ~last'.animateTo /\ ~rendered
          /\ last'.data # NoData /\ last'.data.position # NoData ) =>
            /\ ~last'.threw
            /\ last'.posSet =
                  IF last'.data.beforeMinimized # NoData
                  THEN [left |-> last'.data.position.left,
                        top |-> last'.data.position.top,
                        height |-> last'.data.beforeMinimized.height]
                  ELSE last'.data.position
            /\ position' = last'.posSet
            /\ ~last'.merged
            /\ last'.minmax = "none"
            /\ UNCHANGED <<rendered, minimized, beforeMinimized, options>> ]_vars

\* C6 witness: set() on a closed application with a state saved while minimized and
\* moved since: left and top differ from those before minimizing, and the saved
\* options differ from the application's.
C6_Witness ==
    /\ last.op = "set" /\ ~last.animateTo /\ ~rendered
    /\ last.data # NoData /\ last.data.position # NoData
    /\ last.data.beforeMinimized # NoData
    /\ last.data.beforeMinimized.top # last.data.position.top
    /\ last.data.beforeMinimized.left # last.data.position.left
    /\ last.data.options # options
    /\ position = last.posSet

(***************************************************************************)
(* Claims about TJSDocument                                                *)
(***************************************************************************)

\* The calls that notify the subscribers of a change.
Notifies(call) == call.op \in {"set", "update", "delete"} /\ ~call.threw

C9_SetNotifiesEverySubscriber ==
    [][ (notice'.op = "set" /\ ~notice'.threw) =>
            /\ get' = notice'.doc
            /\ notice'.notified = subscriptions
            /\ notice'.sentDoc = notice'.doc ]_vars

\* C10: right after set(document, options) the updateOptions getter returns the
\* options given to set, and the handlers that set notified received them.
C10_UpdateOptionsAreSetOptions ==
    [][ (notice'.op = "set" /\ ~notice'.threw) =>
            /\ getUpdateOptions' = notice'.options
            /\ notice'.notified # << >> => notice'.sentOptions = notice'.options ]_vars

\* C11: when the wrapped document is deleted, preDelete (when set) is called with the
\* deleted document and awaited before any subscriber is notified of the deletion;
\* then every subscriber is notified with an undefined document and
\* { action: 'delete' }; delete (when set) is called with the deleted document after
\* all of them.
C11_DeleteCallbackOrder ==
    [][ /\ (notice'.op \in {"preDelete", "delete"} /\ deleting[notice'.doc] = "none"
            /\ documentOptions.preDelete = "function") =>
            /\ notice'.op = "preDelete"
            /\ notice'.callbacks = <<Callback("preDelete", notice'.doc, 0)>>
            /\ notice'.notified = << >>
        /\ notice'.op = "delete" =>
            /\ notice'.notified = subscriptions
            /\ notice'.notified # << >> =>
                /\ notice'.sentDoc = Undefined
                /\ notice'.sentOptions.action = "delete"
            /\ documentOptions.delete = "function" =>
                notice'.callbacks = <<Callback("delete", notice'.doc, Len(subscriptions))>> ]_vars

\* C12: destroy() leaves get() undefined, no entry of this store in the apps of the
\* document it held, no subscriber and no delete callback; afterwards a handler is
\* invoked only by its own new subscribe() or as a member of #subscriptions, which
\* holds only handlers subscribed after destroy().
C12_DestroyRemovesAll ==
    [][ /\ notice'.op = "destroy" =>
            /\ get' = Undefined
            /\ notice'.doc \notin apps'
            /\ subscriptions' = << >>
            /\ documentOptions'.delete = Undefined
        /\ notice.op = "destroy" => subscriptions = << >>
        /\ notice'.op \in {"set", "update", "delete"} =>
            Range(notice'.notified) \subseteq Range(subscriptions)
        /\ notice'.op \notin {"set", "update", "delete", "subscribe"} =>
            notice'.notified = << >>
        /\ notice'.op = "subscribe" => notice'.notified = <<notice'.handler>> ]_vars

\* destroy() was called on a store that held a document and had a subscriber.
C12_Witness ==
    /\ notice.op = "destroy"
    /\ notice.doc \in Docs
    /\ subscriptions = << >>
    /\ \E handler \in Handlers : unsubscribers[handler] = "issued"

\* C13: getUUIDFromDataTransfer never returns a compendium UUID when compendium is
\* false, a world UUID when world is false or an actor-owned UUID when actor is false,
\* and returns undefined when types is an array that does not contain data.type.
C13_AcceptFlagsRespected ==
    transfer.op = "getUUIDFromDataTransfer" =>
        /\ ~transfer.opts.compendium => ~startsWith(transfer.ret, "Compendium")
        /\ ~transfer.opts.world =>
            (transfer.ret = NoUUID \/ startsWith(transfer.ret, "Compendium"))
        /\ ~transfer.opts.actor => ~startsWith(transfer.ret, "Actor")
        /\ (transfer.opts.types # NoTypes /\ transfer.data.type \notin transfer.opts.types) =>
            transfer.ret = NoUUID

\* C14: setFromUUID(uuid, options) resolves to true exactly when the lookup produced a
\* document and that document is the current document when it resolves; otherwise it
\* resolves to false, and the current document, its apps registration and the
\* subscribers are as before and no handler was invoked.
C14_SetFromUUIDResolves ==
    [][ notice'.op = "setFromUUID" =>
            /\ notice'.resolved = "true" <=> (IsDocument(notice'.doc) /\ document' = notice'.doc)
            /\ notice'.resolved # "true" =>
                /\ notice'.resolved = "false"
                /\ notice'.notified = << >>
                /\ UNCHANGED <<document, apps, subscriptions>> ]_vars

(***************************************************************************)
(* Claims about Transforms                                                 *)
(***************************************************************************)

\* The keys of a data object in their order.
KeysOf(data) == [i \in DOMAIN data |-> data[i].key]

\* C15: a setter stores a finite value under its key and removes the key for any
\* other value, touching no other key; and after every setter assignment and every
\* reset(data) #count is the number of keys of this._data, each a transform key with a
\* finite value, so that isActive (#count > 0) is true exactly when some key holds a
\* local value.
C15_CountIsNumberOfKeys ==
    [][ /\ count' = Len(localData')
        /\ (count' > 0) <=> (\E key \in Range(transformKeys) : valueOf(localData', key) # NoData)
        /\ \A i \in DOMAIN localData' :
              /\ localData'[i].key \in Range(transformKeys)
              /\ localData'[i].value \in {Num(1), Num(2)}
              /\ \A j \in DOMAIN localData' : localData'[j].key = localData'[i].key => j = i
        /\ transformed'.op = "set" =>
            /\ valueOf(localData', transformed'.key) =
                    IF transformed'.value \in {Num(1), Num(2)} THEN transformed'.value ELSE NoData
            /\ \A key \in Range(transformKeys) \ {transformed'.key} :
                    valueOf(localData', key) = valueOf(localData, key) ]_vars

\* reset(data) left two keys, one of them set before by its setter and not named in
\* data.
C15_Witness ==
    /\ transformed.op = "reset"
    /\ count = 2
    /\ \E i \in DOMAIN localData : ~has(transformed.data, localData[i].key)

\* C16: getMat4 applies the local keys first, in the order they were added to
\* this._data: a setter keeps the place of a key that is there, appends a new key and
\* removes the key for a value that is not finite. Given a separate data object it
\* then applies exactly the transform keys with a finite value in data that are not
\* local keys. No key is applied twice.
C16_Mat4InInsertionOrder ==
    [][ /\ transformed'.op = "getMat4" =>
            LET applied == KeysOf(transformed'.ret)
                n == Len(localData)
            IN  /\ Len(applied) >= n
                /\ SubSeq(applied, 1, n) = KeysOf(localData)
                /\ {applied[i] : i \in (n + 1)..Len(applied)} =
                        IF transformed'.separate
                        THEN {key \in Range(transformKeys) :
                                /\ valueOf(transformed'.data, key) \in {Num(1), Num(2)}
                                /\ key \notin Range(KeysOf(localData))}
                        ELSE {}
                /\ \A i, j \in DOMAIN applied : applied[i] = applied[j] => i = j
        /\ transformed'.op = "set" =>
            KeysOf(localData') =
                IF transformed'.value \notin {Num(1), Num(2)}
                THEN SelectSeq(KeysOf(localData), LAMBDA key : key # transformed'.key)
                ELSE IF transformed'.key \in Range(KeysOf(localData))
                     THEN KeysOf(localData)
                     ELSE Append(KeysOf(localData), transformed'.key) ]_vars

\* getMat4(data) was called with a separate object that adds a transform while two
\* local keys are held in an order that is not the order of transformKeys.
C16_Witness ==
    /\ transformed.op = "getMat4"
    /\ transformed.separate
    /\ Len(localData) = 2
    /\ localData[1].key = "translateX"
    /\ localData[2].key = "rotateX"
    /\ Len(transformed.ret) = 3

(***************************************************************************)
(* Claims about SvelteApplication                                          *)
(***************************************************************************)

\* C17: the mounted components are destroyed only by the callback that runs when the
\* slide-up animation has completed, which then removes the element; close() that
\* starts the animation returns a promise that is still pending, and the callback
\* resolves it after both.
C17_DestroyAfterSlideUp ==
    [][ /\ svelteComponents' < svelteComponents =>
            /\ closed'.op = "slideUp"
            /\ renderState = "CLOSING"
        /\ (element /\ ~element') =>
            /\ closed'.op = "slideUp"
            /\ svelteComponents' = 0
        /\ closed'.op = "slideUp" =>
            /\ closed'.effects = <<"slideUp", "destroy", "remove", "resolve">>
            /\ svelteComponents' = 0
            /\ ~element'
            /\ closed'.resolved
        /\ (closed'.op = "close" /\ closed'.animated) =>
            /\ ~closed'.resolved
            /\ promises' = promises \o <<"pending">>
            /\ svelteComponents' = svelteComponents
            /\ element'
        /\ \A i \in DOMAIN promises :
            (promises[i] = "pending" /\ promises'[i] = "resolved") =>
                /\ closed'.op = "slideUp"
                /\ svelteComponents' = 0
                /\ ~element' ]_vars

\* The animation of a close() completed on an application with mounted components:
\* they are destroyed and the element is gone.
C17_Witness ==
    /\ closed.op = "slideUp"
    /\ svelteComponents = 0
    /\ ~element
    /\ renderState = "CLOSED"

\* C18: close() without options.force in a render state other than RENDERED and ERROR
\* dispatches no close hook, starts no animation and changes nothing of the
\* application.
C18_CloseIgnoredUnlessRendered ==
    [][ (closed'.op = "close" /\ ~closed'.force /\ renderState \notin {"RENDERED", "ERROR"}) =>
            /\ ~closed'.hooks
            /\ ~closed'.animated
            /\ UNCHANGED <<renderState, element, svelteComponents, slideUps, promises,
                           windowed, windowMinimized>> ]_vars

\* close() was called without force while the application was closing.
C18_Witness ==
    /\ closed.op = "close"
    /\ ~closed.force
    /\ ~closed.animated
    /\ renderState = "CLOSING"
    /\ slideUps # << >>

(***************************************************************************)
(* Claims about SvelteReactive                                             *)
(***************************************************************************)

\* C19: a reactive option setter given a value of the wrong type changes nothing of
\* the options, notifies no subscriber of the store and does not throw; a boolean
\* option takes a boolean, headerIcon a string or undefined, and title a string, or
\* the empty string for undefined and null.
C19_WrongTypeIgnored ==
    [][ reacted'.op = "setter" =>
            LET a == reacted'.accessor
                v == reacted'.value
                right == \/ a \in BooleanOptions /\ v.type = "boolean"
                         \/ a = "headerIcon" /\ v.type \in {"string", "undefined"}
                         \/ a = "title" /\ v.type = "string"
                         \/ a = "title" /\ v \in {Typed("undefined", ""), Typed("object", "null")}
            IN  /\ ~right =>
                    /\ appOptions' = appOptions
                    /\ reacted'.notified = {}
                    /\ reacted'.sent = << >>
                    /\ ~reacted'.threw
                /\ right =>
                    appOptions'[a] = IF a = "title" /\ v.type # "string"
                                     THEN Typed("string", "") ELSE v ]_vars

\* The title was assigned a number while handlers were subscribed to the store: none
\* was notified.
C19_Witness ==
    /\ initialized
    /\ appOptionsSubscribers # {}
    /\ reacted.op = "setter"
    /\ reacted.accessor = "title"
    /\ reacted.value.type = "number"
    /\ reacted.notified = {}

\* C20 as stated: after initialize(), a setter given a valid value and a setOptions
\* call that succeeds make the getter of the accessor and getOptions return the value
\* and notify every subscriber of storeAppOptions with the options holding it; a safe
\* set that fails notifies nobody.
C20_SetThenGet ==
    [][ (initialized /\ reacted'.op \in {"setter", "setOptions"}) =>
            LET a == reacted'.accessor
                v == IF reacted'.op = "setter" THEN passed(a, reacted'.value)
                     ELSE reacted'.value
            IN  IF reacted'.success
                THEN /\ a \in Accessors => getter(appOptions', a) = v
                     /\ getOptions(appOptions', a) = v
                     /\ appOptions'[a] = v
                     /\ reacted'.notified = appOptionsSubscribers
                     /\ appOptionsSubscribers # {} => reacted'.sent = <<appOptions'>>
                ELSE /\ reacted'.notified = {}
                     /\ reacted'.sent = << >> ]_vars

\* C20, amended: as C20, but the getter of title returns the localized title of the
\* host, which is the value only when the value has no translation.
C20_SetThenGetLocalized ==
    [][ (initialized /\ reacted'.op \in {"setter", "setOptions"}) =>
            LET a == reacted'.accessor
                v == IF reacted'.op = "setter" THEN passed(a, reacted'.value)
                     ELSE reacted'.value
            IN  IF reacted'.success
                THEN /\ (a \in Accessors /\ a # "title") => getter(appOptions', a) = v
                     /\ (a = "title" /\ v.type = "string") =>
                            getter(appOptions', a) = IF v = Typed("string", "SHEET.Title")
                                                     THEN Typed("string", "Character Sheet")
                                                     ELSE v
                     /\ getOptions(appOptions', a) = v
                     /\ appOptions'[a] = v
                     /\ reacted'.notified = appOptionsSubscribers
                     /\ appOptionsSubscribers # {} => reacted'.sent = <<appOptions'>>
                ELSE /\ reacted'.notified = {}
                     /\ reacted'.sent = << >> ]_vars

\* The title was assigned a translation key with two handlers subscribed: both were
\* notified, getOptions returns the key and the getter its translation.
C20_Witness ==
    /\ initialized
    /\ reacted.op = "setter"
    /\ reacted.accessor = "title"
    /\ reacted.value = Typed("string", "SHEET.Title")
    /\ reacted.success
    /\ reacted.notified = StoreHandlers
    /\ getOptions(appOptions, "title") = Typed("string", "SHEET.Title")
    /\ getter(appOptions, "title") = Typed("string", "Character Sheet")

\* C21 as stated: after updateHeaderButtons, and after a change of one of the two
\* header options while the local subscriptions are active, the header buttons of the
\* UI state are those of the application, without the close button when
\* headerButtonNoClose is true and with every label undefined when headerButtonNoLabel
\* is true.
C21_HeaderButtonsFollowOptions ==
    [][ (initialized /\ updated'.op \in {"updateHeaderButtons", "changed"}) =>
            LET noClose == appOptions'["headerButtonNoClose"] = Typed("boolean", "true")
                noLabel == appOptions'["headerButtonNoLabel"] = Typed("boolean", "true")
            IN  /\ \A i \in DOMAIN headerButtons' :
                    \E j \in DOMAIN appButtons' : headerButtons'[i].class = appButtons'[j].class
                /\ \A j \in DOMAIN appButtons' :
                    appButtons'[j].class # "close" =>
                        \E i \in DOMAIN headerButtons' :
                            headerButtons'[i].class = appButtons'[j].class
                /\ noClose => \A i \in DOMAIN headerButtons' : headerButtons'[i].class # "close"
                /\ noLabel => \A i \in DOMAIN headerButtons' :
                                  headerButtons'[i].label = Undefined ]_vars

\* C21, amended: as C21, where a flag passed to updateHeaderButtons stands in place of
\* the option of its name.
C21_HeaderButtonsFollowFlags ==
    [][ (initialized /\ updated'.op \in {"updateHeaderButtons", "changed"}) =>
            LET close == IF updated'.noClose.type = "undefined"
                         THEN appOptions'["headerButtonNoClose"] ELSE updated'.noClose
                label == IF updated'.noLabel.type = "undefined"
                         THEN appOptions'["headerButtonNoLabel"] ELSE updated'.noLabel
                noClose == close = Typed("boolean", "true")
                noLabel == label = Typed("boolean", "true")
                kept == IF noClose THEN SelectSeq(appButtons', LAMBDA b : b.class # "close") ELSE appButtons'
            IN  /\ Len(headerButtons') = Len(kept)
                /\ \A i \in DOMAIN kept :
                    /\ headerButtons'[i].class = kept[i].class
                    /\ headerButtons'[i].label = IF noLabel THEN Undefined ELSE kept[i].label
                /\ noClose => \A i \in DOMAIN headerButtons' : headerButtons'[i].class # "close"
                /\ noLabel => \A i \in DOMAIN headerButtons' :
                                  headerButtons'[i].label = Undefined ]_vars

\* headerButtonNoClose became true with the local subscriptions active while the
\* application has two buttons: the UI state holds the other button alone.
C21_Witness ==
    /\ initialized
    /\ storesSubscribed
    /\ updated.op = "changed"
    /\ reacted.accessor = "headerButtonNoClose"
    /\ appOptions["headerButtonNoClose"] = Typed("boolean", "true")
    /\ appButtons = <<ConfigureButton, CloseButton>>
    /\ headerButtons = <<ConfigureButton>>

(***************************************************************************)
(* Claims about loadSvelteConfig                                           *)
(***************************************************************************)

\* C22: loadSvelteConfig returns only when elementRoot is a get / set accessor of the
\* component that holds an HTMLElement, and then returns that element; when the target
\* is neither an element nor a selector that matches one, or elementRoot is no
\* accessor or holds no HTMLElement, it throws and returns nothing.
C22_ReturnsOnlyApplicationShell ==
    [][ loaded'.op = "loadSvelteConfig" =>
            LET a == loaded'.args
                r == loaded'.result
                resolved == \/ a.target \in {"div", "section"}
                            \/ a.target = "#app" /\ a.app /\ a.found
                shell == a.accessors /\ a.elementRoot \in {"div", "section"}
            IN  /\ ~r.threw => (shell /\ r.element = a.elementRoot /\ mounted' = mounted + 1)
                /\ (~resolved \/ ~shell) => (r.threw /\ r.element = Undefined)
                /\ ~resolved => mounted' = mounted ]_vars

\* A component whose elementRoot holds an element without being an accessor was
\* instantiated on a resolved target, and the call threw.
C22_Witness ==
    /\ loaded.op = "loadSvelteConfig"
    /\ loaded.args.app
    /\ loaded.args.target = "#app"
    /\ loaded.args.found
    /\ ~loaded.args.accessors
    /\ loaded.args.elementRoot = "section"
    /\ loaded.result.threw
    /\ loaded.result.created

(***************************************************************************)
(* Claims about the draggable action                                       *)
(***************************************************************************)

\* C23: update({ booleanStore: false }) and destroy() disable the action, only
\* update with a true state enables it again, and while it is disabled no pointer
\* move calls positionable.setPosition, a drag in progress included.
C23_NoMoveWhileDisabled ==
    [][ /\ (dragged'.op = "destroy" \/ (dragged'.op = "update" /\ ~dragged'.flag)) =>
            (~dragActive' /\ ~nodeListening')
        /\ (~dragActive /\ dragActive') => (dragged'.op = "update" /\ dragged'.flag)
        /\ ~dragActive =>
            /\ ~dragged'.setPosition
            /\ positionLeft' = positionLeft ]_vars

\* The action was disabled between pointerdown and pointerup, and a pointer move
\* arrived at the listener of the window without setting the position.
C23_Witness ==
    /\ dragged.op = "pointermove"
    /\ ~dragged.setPosition
    /\ globalListening
    /\ dragStart # NoData
    /\ ~dragActive
    /\ dragged.x # dragStart.x
    /\ now - moveTime >= 1

(***************************************************************************)
(* Claims about Transforms.getData                                         *)
(***************************************************************************)

\* C24: the bounding rect of getData has the least x and y of the four output corners
\* and, as width and height, the greatest less the least; for a position without a
\* finite transform key the corners are those of the rectangle at left / top plus the
\* validation offsets, as wide and high as the position when that is finite and as the
\* validation data otherwise, and the matrix is the identity.
C24_BoundingRectOfCorners ==
    [][ computed'.op = "getData" =>
            LET p == computed'.position
                v == computed'.validationData
                o == computed'.output
                b == o.boundingRect
                finite(value) == value # NoData
                L == p.left + (IF finite(v.offsetLeft) THEN v.offsetLeft.num ELSE 0)
                T == p.top + (IF finite(v.offsetTop) THEN v.offsetTop.num
                              ELSE IF finite(v.marginTop) THEN v.marginTop.num ELSE 0)
                w == IF finite(p.width) THEN p.width.num
                     ELSE IF finite(v.width) THEN v.width.num ELSE 0
                h == IF finite(p.height) THEN p.height.num
                     ELSE IF finite(v.height) THEN v.height.num ELSE 0
            IN  /\ \A i \in 1..4 : /\ b.x <= o.corners[i][1]
                                   /\ b.y <= o.corners[i][2]
                                   /\ o.corners[i][1] <= b.x + b.width
                                   /\ o.corners[i][2] <= b.y + b.height
                /\ \E i \in 1..4 : b.x = o.corners[i][1]
                /\ \E i \in 1..4 : b.y = o.corners[i][2]
                /\ \E i \in 1..4 : b.x + b.width = o.corners[i][1]
                /\ \E i \in 1..4 : b.y + b.height = o.corners[i][2]
                /\ (\A i \in DOMAIN p.data :
                        p.data[i].key \in Range(transformKeys) => ~finite(p.data[i].value)) =>
                    /\ o.corners = <<<<L, T>>, <<L + w, T>>, <<L + w, T + h>>, <<L, T + h>>>>
                    /\ o.mat4 = << >> ]_vars

\* getData of a position without a finite transform key and with a negative width: the
\* least x is that of the second corner.
C24_Witness ==
    /\ computed.op = "getData"
    /\ computed.position.width = Num(-1)
    /\ \A i \in DOMAIN computed.position.data : computed.position.data[i].value = NoData
    /\ computed.output.mat4 = << >>
    /\ computed.output.boundingRect.x = computed.output.corners[2][1]
    /\ computed.output.boundingRect.x < computed.output.corners[1][1]
    /\ computed.output.boundingRect.width = 1

====
